---- MODULE Spec2Model ----
(***************************************************************************)
(* Verification model of the invoice ingestion pipeline                    *)
(* (aclaire10/Farming-Command-Center).                                      *)
(*                                                                         *)
(* Two lineages of the orchestrator are modelled:                          *)
(*   - the SQLite lineage, src/cli/main.py, step by step (one action per   *)
(*     stage of process_single_invoice, one per database statement of the  *)
(*     finalisation), driven by process_batch or by main;                  *)
(*   - the JSONL lineage, src/main.py, one action per call.                *)
(*                                                                         *)
(* Text is a sequence of one-character strings.  None and the empty string *)
(* are both the empty sequence (the code tests them by truthiness).        *)
(* Confidences and scores are integers in hundredths, amounts are integers *)
(* in thousandths of the currency unit.  sha256 is taken to be injective:  *)
(* a fingerprint is the normalized text it hashes, tagged "sha256:".       *)
(***************************************************************************)
EXTENDS Integers, Sequences, FiniteSets, TLC

\* ------------------------------------------------------------------------
\* Bounds
\* ------------------------------------------------------------------------
\* calls of process_single_invoice over the life of the database
MaxCalls == 2

\* ------------------------------------------------------------------------
\* Characters and text helpers (Python str methods and re.sub)
\* ------------------------------------------------------------------------
\* str.lower() on one character
LowerChar(c) ==
  CASE c = "A" -> "a"
    [] c = "B" -> "b"
    [] c = "G" -> "g"
    [] c = "P" -> "p"
    [] OTHER -> c

\* \s of the re module
IsSpace(c) == c \in {" ", "\n", "\t"}

\* \w of the re module
IsWord(c) == c \in {"a", "b", "g", "p", "A", "B", "G", "P", "0", "1", "2", "_"}

str_lower(s) == [i \in 1..Len(s) |-> LowerChar(s[i])]

RECURSIVE str_lstrip(_)
str_lstrip(s) ==
  IF s = <<>> THEN <<>>
  ELSE IF IsSpace(Head(s)) THEN str_lstrip(Tail(s)) ELSE s

RECURSIVE str_rstrip(_)
str_rstrip(s) ==
  IF s = <<>> THEN <<>>
  ELSE IF IsSpace(s[Len(s)]) THEN str_rstrip(SubSeq(s, 1, Len(s) - 1)) ELSE s

str_strip(s) == str_rstrip(str_lstrip(s))

\* a in b for two strings
str_contains(a, b) ==
  \E i \in 0..(Len(b) - Len(a)) : SubSeq(b, i + 1, i + Len(a)) = a

\* re.sub(r"\s+", " ", s)
RECURSIVE collapse_whitespace(_)
collapse_whitespace(s) ==
  IF s = <<>> THEN <<>>
  ELSE IF IsSpace(Head(s))
       THEN <<" ">> \o collapse_whitespace(str_lstrip(Tail(s)))
       ELSE <<Head(s)>> \o collapse_whitespace(Tail(s))

\* the text with its punctuation left in place
punct_kept(s) == [i \in 1..Len(s) |-> s[i]]

\* re.sub(r"[^\w\s]", " ", s)
punct_to_space(s) ==
  [i \in 1..Len(s) |-> IF IsWord(s[i]) \/ IsSpace(s[i]) THEN s[i] ELSE " "]

\* text[:n]
str_prefix(s, n) == SubSeq(s, 1, IF Len(s) < n THEN Len(s) ELSE n)

\* ------------------------------------------------------------------------
\* Fingerprint engine (src/cli/main.py)
\* ------------------------------------------------------------------------
FingerprintMaxLen == 50000

normalize_for_fingerprint(text) ==
  str_prefix(str_strip(collapse_whitespace(punct_to_space(str_lower(text)))),
             FingerprintMaxLen)

compute_content_fingerprint(text) ==
  <<"sha256:">> \o normalize_for_fingerprint(text)

\* SQL NULL in documents.content_fingerprint
NullFingerprint == <<>>

\* ------------------------------------------------------------------------
\* Identifier normalisation and the invoice key (src/cli/main.py)
\* ------------------------------------------------------------------------
norm_identifier(s) ==
  IF s = <<>> THEN <<>>
  ELSE LET lowered  == str_strip(str_lower(s))
           nosep    == SelectSeq(lowered,
                         LAMBDA c : ~(c \in {"-", "_", "/"} \/ IsSpace(c)))
       IN  SelectSeq(nosep, LAMBDA c : IsWord(c))

norm_date(date_str) == IF date_str = <<>> THEN <<>> ELSE str_strip(date_str)

norm_address(address) ==
  IF address = <<>> THEN <<>>
  ELSE SelectSeq(collapse_whitespace(str_strip(str_lower(address))),
                 LAMBDA c : ~(c \in {",", "."}))

\* an amount is None, or a float given in thousandths, or (for the
\* validator, which also takes the raw value of the model output) a string
NoAmount == [kind |-> "none", mills |-> 0, text |-> <<>>]
InfAmount == [kind |-> "inf", mills |-> 0, text |-> <<>>]
Amount(m) == [kind |-> "num", mills |-> m, text |-> <<>>]
StrAmount(text) == [kind |-> "str", mills |-> 0, text |-> text]

\* round(x) of Python 3 on n/d: ties go to the even integer
RoundHalfEven(n, d) ==
  LET q == n \div d
      r == n % d
  IN  IF 2 * r < d THEN q
      ELSE IF 2 * r > d THEN q + 1
      ELSE IF q % 2 = 0 THEN q ELSE q + 1

\* Decimal.to_integral_value(rounding="ROUND_HALF_UP") on n/d: ties go away
\* from zero
RoundHalfUp(n, d) ==
  LET a == IF n < 0 THEN -n ELSE n
      q == a \div d
      r == a % d
      m == IF 2 * r >= d THEN q + 1 ELSE q
  IN  IF n < 0 THEN -m ELSE m

amount_to_cents(amount) ==
  IF amount.kind = "none" THEN 0 ELSE RoundHalfEven(amount.mills, 10)

\* the key f"{vendor_key}|acct:..|inv:.." is kept as the record of its parts
NoKey == [tier |-> "none", vendor |-> <<>>, acct |-> <<>>, inv |-> <<>>,
          addr |-> <<>>, date |-> <<>>, cents |-> 0]

\* the chain with Tier B tried before Tier A
compute_invoice_key_tier_b_first(vendor_key, parsed_invoice) ==
  IF vendor_key = <<>> \/ ~parsed_invoice.present THEN NoKey
  ELSE IF parsed_invoice.account_number # <<>>
          /\ parsed_invoice.invoice_date # <<>>
          /\ parsed_invoice.total_amount.kind # "none"
  THEN [NoKey EXCEPT !.tier = "B", !.vendor = vendor_key,
                     !.acct = norm_identifier(parsed_invoice.account_number),
                     !.date = norm_date(parsed_invoice.invoice_date),
                     !.cents = amount_to_cents(parsed_invoice.total_amount)]
  ELSE IF parsed_invoice.account_number # <<>>
          /\ parsed_invoice.invoice_number # <<>>
  THEN [NoKey EXCEPT !.tier = "A", !.vendor = vendor_key,
                     !.acct = norm_identifier(parsed_invoice.account_number),
                     !.inv = norm_identifier(parsed_invoice.invoice_number)]
  ELSE NoKey

compute_invoice_key(vendor_key, parsed_invoice) ==
  IF vendor_key = <<>> \/ ~parsed_invoice.present THEN NoKey
  ELSE LET account_number  == parsed_invoice.account_number
           invoice_number  == parsed_invoice.invoice_number
           invoice_date    == parsed_invoice.invoice_date
           total_amount    == parsed_invoice.total_amount
           service_address == parsed_invoice.service_address
       IN  IF account_number # <<>> /\ invoice_number # <<>>
           THEN [NoKey EXCEPT !.tier = "A", !.vendor = vendor_key,
                              !.acct = norm_identifier(account_number),
                              !.inv = norm_identifier(invoice_number)]
           ELSE IF account_number # <<>> /\ invoice_date # <<>>
                   /\ total_amount.kind # "none"
           THEN [NoKey EXCEPT !.tier = "B", !.vendor = vendor_key,
                              !.acct = norm_identifier(account_number),
                              !.date = norm_date(invoice_date),
                              !.cents = amount_to_cents(total_amount)]
           ELSE IF service_address # <<>> /\ invoice_date # <<>>
                   /\ total_amount.kind # "none"
           THEN [NoKey EXCEPT !.tier = "C", !.vendor = vendor_key,
                              !.addr = norm_address(service_address),
                              !.date = norm_date(invoice_date),
                              !.cents = amount_to_cents(total_amount)]
           ELSE NoKey

\* ------------------------------------------------------------------------
\* Structured payloads and their validation (src/llm_parser.py,
\* src/core/validator.py)
\* ------------------------------------------------------------------------
\* the dict _normalize_structured_invoice returns; present = FALSE is None
Payload(vendor_name, invoice_number, invoice_date, total_amount, service_address, account_number) ==
  [present |-> TRUE, vendor_name |-> vendor_name,
   invoice_number |-> invoice_number, invoice_date |-> invoice_date,
   total_amount |-> total_amount, service_address |-> service_address,
   account_number |-> account_number]

NoPayload ==
  [present |-> FALSE, vendor_name |-> <<>>, invoice_number |-> <<>>,
   invoice_date |-> <<>>, total_amount |-> NoAmount,
   service_address |-> <<>>, account_number |-> <<>>]

_DATE_FORMATS == <<"%Y-%m-%d", "%m/%d/%Y", "%d/%m/%Y", "%B %d, %Y", "%b %d, %Y">>

\* datetime.strptime(raw, fmt) succeeds; a date is one token
strptime_ok(raw, fmt) ==
  \/ raw = <<"2025-01-09">>      /\ fmt = "%Y-%m-%d"
  \/ raw = <<"01/09/2025">>      /\ fmt \in {"%m/%d/%Y", "%d/%m/%Y"}
  \/ raw = <<"13/01/2025">>      /\ fmt = "%d/%m/%Y"
  \/ raw = <<"January 9, 2025">> /\ fmt = "%B %d, %Y"

\* the digit a character writes, -1 for any other character
digit_of(c) ==
  CASE c = "0" -> 0 [] c = "1" -> 1 [] c = "2" -> 2 [] c = "3" -> 3
    [] c = "4" -> 4 [] c = "5" -> 5 [] c = "6" -> 6 [] c = "7" -> 7
    [] c = "8" -> 8 [] c = "9" -> 9 [] OTHER -> -1

\* int(digits) of a string of digits
RECURSIVE digits_value(_)
digits_value(digits) ==
  IF digits = <<>> THEN 0
  ELSE 10 * digits_value(SubSeq(digits, 1, Len(digits) - 1))
         + digit_of(digits[Len(digits)])

\* 10^n
RECURSIVE pow10(_)
pow10(n) == IF n = 0 THEN 1 ELSE 10 * pow10(n - 1)

\* Decimal(s) for a string of digits, ".", "+", "-" and other characters:
\* an optional sign, then digits with at most one point and at least one
\* digit; [ok, num, den] with the value num/den
parse_decimal(s) ==
  LET signed == s # <<>> /\ Head(s) \in {"+", "-"}
      body   == IF signed THEN Tail(s) ELSE s
      digits == SelectSeq(body, LAMBDA c : c # ".")
      points == Len(body) - Len(digits)
      after  == IF points = 0 THEN 0
                ELSE Len(body)
                       - (CHOOSE i \in 1..Len(body) : body[i] = ".")
      ok     == /\ digits # <<>>
                /\ points <= 1
                /\ \A i \in 1..Len(digits) : digit_of(digits[i]) >= 0
  IN  IF ~ok THEN [ok |-> FALSE, num |-> 0, den |-> 1]
      ELSE [ok |-> TRUE,
            num |-> IF signed /\ Head(s) = "-" THEN -digits_value(digits)
                    ELSE digits_value(digits),
            den |-> pow10(after)]

\* lines 50-80 on the stripped string s: commas and currency symbols out,
\* parentheses or a leading minus as the sign, Decimal, cents half up
total_text_to_cents(s) ==
  LET cleaned == str_strip(SelectSeq(str_strip(SelectSeq(s,
                   LAMBDA c : c # ",")), LAMBDA c : c # "$"))
      parens == Len(cleaned) >= 1 /\ Head(cleaned) = "("
                  /\ cleaned[Len(cleaned)] = ")"
      minus == ~parens /\ cleaned # <<>> /\ Head(cleaned) = "-"
      inner == IF parens /\ Len(cleaned) >= 2
               THEN str_strip(SubSeq(cleaned, 2, Len(cleaned) - 1))
               ELSE IF parens THEN <<>>
               ELSE IF minus THEN str_strip(Tail(cleaned))
               ELSE cleaned
      dec == parse_decimal(inner)
  IN  IF inner = <<>> \/ ~dec.ok THEN [err |-> "ValueError", cents |-> 0]
      ELSE [err |-> "none",
            cents |-> RoundHalfUp(
                        (IF parens \/ minus THEN -dec.num ELSE dec.num) * 100,
                        dec.den)]

\* returns [err, cents]; err names the exception raised, if any
normalize_total_to_cents(raw_total) ==
  CASE raw_total.kind = "none" -> [err |-> "ValueError", cents |-> 0]
    [] raw_total.kind = "nan"  -> [err |-> "ValueError", cents |-> 0]
    [] raw_total.kind = "inf"  -> [err |-> "OverflowError", cents |-> 0]
    [] raw_total.kind = "str"  ->
         IF str_strip(raw_total.text) = <<>>
         THEN [err |-> "ValueError", cents |-> 0]
         ELSE total_text_to_cents(str_strip(raw_total.text))
    [] OTHER -> [err |-> "none", cents |-> RoundHalfUp(raw_total.mills, 10)]

PARSE_STATUS_SUCCESS == "success"
PARSE_STATUS_INVALID_JSON == "invalid_json"
PARSE_STATUS_VALIDATION_FAILED == "validation_failed"

\* returns [raised, valid, reason]
validate_invoice_payload(payload) ==
  LET missing(val) == str_strip(val) = <<>>
      raw_date == str_strip(payload.invoice_date)
      total    == normalize_total_to_cents(payload.total_amount)
      answer(valid, reason) ==
        [raised |-> "none", valid |-> valid, reason |-> reason]
  IN  IF ~payload.present THEN answer(FALSE, "missing_required_field")
      ELSE IF \/ missing(payload.vendor_name)
              \/ missing(payload.invoice_number)
              \/ missing(payload.invoice_date)
              \/ payload.total_amount.kind = "none"
              \/ (payload.total_amount.kind = "str"
                    /\ missing(payload.total_amount.text))
      THEN answer(FALSE, "missing_required_field")
      ELSE IF ~(\E i \in 1..Len(_DATE_FORMATS) : strptime_ok(raw_date, _DATE_FORMATS[i]))
      THEN answer(FALSE, "invalid_date_format")
      ELSE IF total.err = "ValueError" THEN answer(FALSE, "invalid_amount")
      ELSE IF total.err # "none"
      THEN [raised |-> total.err, valid |-> FALSE, reason |-> ""]
      ELSE IF total.cents = 0 THEN answer(FALSE, "zero_amount")
      ELSE answer(TRUE, "")

\* payloads the structured parser is taken to return
PayloadA1 ==
  Payload(<<"P", "G">>, <<"A", "-", "1">>, <<"2025-01-09">>, Amount(10500),
          <<>>, <<"0", "1">>)
\* the same invoice as PayloadA1 read from another scan
PayloadA2 ==
  Payload(<<"p", "g", " ", "B">>, <<"a", "1">>, <<"01/09/2025">>,
          Amount(10500), <<>>, <<"0", "-", "1">>)
\* a vendor no farm configures
PayloadUnknownVendor ==
  Payload(<<"B">>, <<"A", "-", "2">>, <<"2025-01-09">>, Amount(-2005),
          <<>>, <<"0", "2">>)
PayloadBadDate == [PayloadA1 EXCEPT !.invoice_date = <<"yesterday">>]
PayloadZeroAmount == [PayloadA1 EXCEPT !.total_amount = Amount(4)]
PayloadInfAmount == [PayloadA1 EXCEPT !.total_amount = InfAmount]

Payloads ==
  {PayloadA1, PayloadA2, PayloadUnknownVendor, PayloadBadDate,
   PayloadZeroAmount, PayloadInfAmount}

\* ------------------------------------------------------------------------
\* Farm configuration and classification results (src/farm_tagger.py,
\* src/core/rules.py)
\* ------------------------------------------------------------------------
\* load_farms result: the "farms" list; vendors keep their dict order
farms_config ==
  <<[id |-> "farm_a", has_vendors |-> TRUE,
     vendors |-> <<[key |-> <<"pge">>, name |-> <<"P", "G">>]>>],
    [id |-> "farm_b", has_vendors |-> TRUE,
     vendors |-> <<[key |-> <<"pge">>, name |-> <<"p", "g">>]>>]>>

FarmIds == {farms_config[i].id : i \in 1..Len(farms_config)}

\* None for a farm id
NoFarm == ""

\* the first farm of that id, then its first vendor whose name is contained
\* in the payload's vendor name
resolve_vendor_key(farm_id, vendor_name, farms) ==
  IF farm_id = NoFarm \/ vendor_name = <<>> \/ farms = <<>> THEN <<>>
  ELSE LET farm_hits == {i \in 1..Len(farms) : farms[i].id = farm_id}
       IN  IF farm_hits = {} THEN <<>>
           ELSE LET fi == CHOOSE i \in farm_hits : \A j \in farm_hits : i <= j
                    vendors == farms[fi].vendors
                    vendor_name_lower == str_lower(vendor_name)
                    vendor_hits ==
                      {i \in 1..Len(vendors) :
                         /\ str_lower(vendors[i].name) # <<>>
                         /\ str_contains(str_lower(vendors[i].name),
                                         vendor_name_lower)}
                IN  IF ~farms[fi].has_vendors \/ vendor_hits = {} THEN <<>>
                    ELSE vendors[CHOOSE i \in vendor_hits :
                                   \A j \in vendor_hits : i <= j].key

\* confidence at or above which a result is not reviewed, in hundredths
AutoThreshold == 85

TagResult(top, confidence, needs_manual_review) ==
  [top |-> top, confidence |-> confidence,
   needs_manual_review |-> needs_manual_review]

\* tag_document_text: no farm scored above zero
ZeroMatchResult == TagResult(NoFarm, 0, TRUE)

\* tag_document_text: a top candidate, the confidence of the threshold table
\* and whether one of the two guards fired
ScoredResult(farm_id, table_confidence, guard_fired) ==
  IF guard_fired
  THEN TagResult(farm_id,
                 IF table_confidence < 70 THEN table_confidence ELSE 70, TRUE)
  ELSE TagResult(farm_id, table_confidence, table_confidence < AutoThreshold)

\* apply_dynamic_rules: the matching rule's farm, vendor-only fallback or not
DynamicRuleResult(farm_id, is_vendor_fallback) ==
  LET confidence == IF is_vendor_fallback THEN 70 ELSE 99
  IN  TagResult(farm_id, confidence, confidence < AutoThreshold)

\* results the classification stage is taken to produce
TagResults ==
  {ZeroMatchResult}
    \cup {ScoredResult(f, c, FALSE) : f \in FarmIds, c \in {70, 85}}
    \cup {DynamicRuleResult("farm_a", fb) : fb \in BOOLEAN}

\* ------------------------------------------------------------------------
\* Dynamic rule engine (src/core/rules.py, and src/rules.py of the JSONL
\* lineage)
\* ------------------------------------------------------------------------
\* rule lists handed to apply_dynamic_rules hold at most this many rules
MaxRules == 2

\* lowercase, whitespace runs to one space, stripped
normalize_text(value) == str_strip(collapse_whitespace(str_lower(value)))

\* normalize_text, then re.sub(r"[-_/\s]", "") and re.sub(r"[^\w]", "")
normalize_identifier(value) ==
  LET nosep == SelectSeq(normalize_text(value),
                 LAMBDA c : ~(c \in {"-", "_", "/"} \/ IsSpace(c)))
  IN  SelectSeq(nosep, LAMBDA c : IsWord(c))

BILL_TO_CONTAINS_ALL == "bill_to_contains_all"
BILL_TO_MATCH == "bill_to_match"

\* a rule of the rules file; a key the rule does not carry holds what
\* dict.get answers for it (None as the empty text, no list as <<>>), and
\* the type of a vendor+account rule is the empty string
DynamicRule(type, tokens, match_text, farm_key, rule_id, vendor_key, account_number, service_address_contains, keywords_any, farm_id, priority) ==
  [type |-> type, tokens |-> tokens, match_text |-> match_text,
   farm_key |-> farm_key, rule_id |-> rule_id, vendor_key |-> vendor_key,
   account_number |-> account_number,
   service_address_contains |-> service_address_contains,
   keywords_any |-> keywords_any, farm_id |-> farm_id, priority |-> priority]

\* code point order of the characters rule ids are written with
ord(c) ==
  CASE c = "0" -> 48 [] c = "1" -> 49 [] c = "2" -> 50
    [] c = "_" -> 95 [] c = "a" -> 97 [] c = "b" -> 98
    [] c = "g" -> 103 [] c = "p" -> 112 [] OTHER -> 0

\* a < b for two strings
RECURSIVE str_less(_, _)
str_less(a, b) ==
  IF b = <<>> THEN FALSE
  ELSE IF a = <<>> THEN TRUE
  ELSE IF ord(Head(a)) # ord(Head(b)) THEN ord(Head(a)) < ord(Head(b))
  ELSE str_less(Tail(a), Tail(b))

\* str(x or "").strip() of a farm id: farm ids are written without blanks
farm_of(rule_farm_key, rule_farm_id) ==
  IF rule_farm_key # NoFarm THEN rule_farm_key ELSE rule_farm_id

tier(r) ==
  IF r.service_address_contains # <<>> THEN 0
  ELSE IF r.keywords_any # <<>> THEN 1
  ELSE 2

\* the sort key (tier, -priority, rule_id) of r1 is smaller than that of r2
vendor_rule_before(r1, r2) ==
  \/ tier(r1) < tier(r2)
  \/ /\ tier(r1) = tier(r2)
     /\ \/ r1.priority > r2.priority
        \/ r1.priority = r2.priority /\ str_less(r1.rule_id, r2.rule_id)

\* sorted() is stable: a rule goes before the first rule of a larger key
RECURSIVE sorted_insert(_, _)
sorted_insert(ordered, r) ==
  IF ordered = <<>> THEN <<r>>
  ELSE IF vendor_rule_before(r, Head(ordered)) THEN <<r>> \o ordered
  ELSE <<Head(ordered)>> \o sorted_insert(Tail(ordered), r)

RECURSIVE _order_vendor_rules(_)
_order_vendor_rules(rules) ==
  IF rules = <<>> THEN <<>>
  ELSE sorted_insert(
         _order_vendor_rules(SubSeq(rules, 1, Len(rules) - 1)),
         rules[Len(rules)])

\* a farm of farms.json with what the rule engine and the scoring
\* classifier read of it; vendors is the dict in its order
Farm(id, identifiers, keywords, vendors) ==
  [id |-> id, identifiers |-> identifiers, keywords |-> keywords,
   vendors |-> vendors]

Vendor(key, name, identifiers, keywords) ==
  [key |-> key, name |-> name, identifiers |-> identifiers,
   keywords |-> keywords]

_vendor_in_text(normalized_vendor_key, document_lower, document_identifier, farms) ==
  \/ str_contains(normalized_vendor_key, document_identifier)
  \/ \E f \in 1..Len(farms) : \E v \in 1..Len(farms[f].vendors) :
       LET vendor_cfg == farms[f].vendors[v]
           candidate_terms ==
             <<vendor_cfg.key, vendor_cfg.name>> \o vendor_cfg.keywords
       IN  /\ normalize_identifier(vendor_cfg.key) = normalized_vendor_key
           /\ \E t \in 1..Len(candidate_terms) :
                /\ normalize_text(candidate_terms[t]) # <<>>
                /\ str_contains(normalize_text(candidate_terms[t]),
                                document_lower)

_matches_rule(rule, document_lower, document_identifier, farms) ==
  LET vendor_key == normalize_identifier(rule.vendor_key)
      account_number == normalize_identifier(rule.account_number)
      service_needles ==
        {normalize_text(rule.service_address_contains[i]) :
           i \in {j \in 1..Len(rule.service_address_contains) :
                    rule.service_address_contains[j] # <<>>}}
      keywords_any ==
        {normalize_text(rule.keywords_any[i]) :
           i \in {j \in 1..Len(rule.keywords_any) :
                    rule.keywords_any[j] # <<>>}}
  IN  /\ vendor_key # <<>>
      /\ account_number # <<>>
      /\ _vendor_in_text(vendor_key, document_lower, document_identifier,
                         farms)
      /\ str_contains(account_number, document_identifier)
      /\ \A n \in service_needles : str_contains(n, document_lower)
      /\ keywords_any # {} =>
           \E k \in keywords_any : str_contains(k, document_lower)

\* no rule
NoRule ==
  DynamicRule("", <<>>, <<>>, NoFarm, <<>>, <<>>, <<>>, <<>>, <<>>, NoFarm, 0)

\* what apply_dynamic_rules returns: None, or a TagResult together with the
\* matched_rules label of its candidate and the rule that matched
NoRuleMatch ==
  [found |-> FALSE, tag |-> ZeroMatchResult, matched_rule |-> "",
   rule |-> NoRule]

RuleMatch(tag, matched_rule, rule) ==
  [found |-> TRUE, tag |-> tag, matched_rule |-> matched_rule,
   rule |-> rule]

\* the loop of lines 154-178 accepts the rule at index i
bill_to_contains_all_hit(rules, i, document_lower) ==
  /\ rules[i].type = BILL_TO_CONTAINS_ALL
  /\ rules[i].tokens # <<>>
  /\ \A t \in 1..Len(rules[i].tokens) :
       rules[i].tokens[t] # <<>> =>
         str_contains(str_lower(str_strip(rules[i].tokens[t])),
                      document_lower)
  /\ farm_of(rules[i].farm_key, rules[i].farm_id) # NoFarm

\* the loop of lines 180-203 accepts the rule at index i
bill_to_match_hit(rules, i, document_lower) ==
  /\ rules[i].type = BILL_TO_MATCH
  /\ str_strip(rules[i].match_text) # <<>>
  /\ normalize_text(str_strip(rules[i].match_text)) # <<>>
  /\ str_contains(normalize_text(str_strip(rules[i].match_text)),
                  document_lower)
  /\ farm_of(rules[i].farm_key, rules[i].farm_id) # NoFarm

\* lines 205-211: the rules of the third stage, in list order, as indexes
is_vendor_rule(r) ==
  /\ r.type \notin {BILL_TO_CONTAINS_ALL, BILL_TO_MATCH}
  /\ normalize_identifier(r.vendor_key) # <<>>
  /\ normalize_identifier(r.account_number) # <<>>

\* the loop of lines 213-235 accepts the rule
vendor_rule_hit(rule, document_lower, document_identifier, farms) ==
  /\ _matches_rule(rule, document_lower, document_identifier, farms)
  /\ rule.farm_id # NoFarm


\* the smallest index of a set of indexes: the first rule a loop accepts
first_index(S) == CHOOSE i \in S : \A j \in S : i <= j

\* a precedence in which the three kinds of rule compete in list order
apply_dynamic_rules_in_list_order(vision_text, rules, farms) ==
  LET document_lower == normalize_text(vision_text)
      document_identifier == normalize_identifier(vision_text)
      hits ==
        {i \in 1..Len(rules) :
           \/ bill_to_contains_all_hit(rules, i, document_lower)
           \/ bill_to_match_hit(rules, i, document_lower)
           \/ /\ is_vendor_rule(rules[i])
              /\ vendor_rule_hit(rules[i], document_lower,
                                 document_identifier, farms)}
  IN  IF hits = {} THEN NoRuleMatch
      ELSE LET r == rules[first_index(hits)]
           IN  IF r.type \in {BILL_TO_CONTAINS_ALL, BILL_TO_MATCH}
               THEN RuleMatch(TagResult(farm_of(r.farm_key, r.farm_id), 99,
                                        FALSE), r.type, r)
               ELSE RuleMatch(
                      DynamicRuleResult(r.farm_id,
                        r.service_address_contains = <<>>
                          /\ r.keywords_any = <<>>),
                      "dynamic_rule", r)

\* src/core/rules.py lines 131-236
apply_dynamic_rules(vision_text, rules, farms) ==
  IF rules = <<>> THEN NoRuleMatch
  ELSE
    LET document_lower == normalize_text(vision_text)
        document_identifier == normalize_identifier(vision_text)
        contains_all_hits ==
          {i \in 1..Len(rules) :
             bill_to_contains_all_hit(rules, i, document_lower)}
        match_hits ==
          {i \in 1..Len(rules) : bill_to_match_hit(rules, i, document_lower)}
        ordered == _order_vendor_rules(SelectSeq(rules, is_vendor_rule))
        vendor_hits ==
          {i \in 1..Len(ordered) :
             vendor_rule_hit(ordered[i], document_lower, document_identifier,
                             farms)}
    IN  IF contains_all_hits # {}
        THEN LET r == rules[first_index(contains_all_hits)]
             IN  RuleMatch(TagResult(farm_of(r.farm_key, r.farm_id), 99,
                                     FALSE), BILL_TO_CONTAINS_ALL, r)
        ELSE IF match_hits # {}
        THEN LET r == rules[first_index(match_hits)]
             IN  RuleMatch(TagResult(farm_of(r.farm_key, r.farm_id), 99,
                                     FALSE), BILL_TO_MATCH, r)
        ELSE IF vendor_hits # {}
        THEN LET r == ordered[first_index(vendor_hits)]
                 is_vendor_fallback ==
                   ~(r.service_address_contains # <<>>
                       \/ r.keywords_any # <<>>)
             IN  RuleMatch(DynamicRuleResult(r.farm_id, is_vendor_fallback),
                           "dynamic_rule", r)
        ELSE NoRuleMatch

\* src/rules.py lines 119-122: priority descending, then rule_id ascending
legacy_rule_before(r1, r2) ==
  \/ r1.priority > r2.priority
  \/ r1.priority = r2.priority /\ str_less(r1.rule_id, r2.rule_id)

RECURSIVE legacy_sorted_insert(_, _)
legacy_sorted_insert(ordered, r) ==
  IF ordered = <<>> THEN <<r>>
  ELSE IF legacy_rule_before(r, Head(ordered)) THEN <<r>> \o ordered
  ELSE <<Head(ordered)>> \o legacy_sorted_insert(Tail(ordered), r)

RECURSIVE legacy_order_rules(_)
legacy_order_rules(rules) ==
  IF rules = <<>> THEN <<>>
  ELSE legacy_sorted_insert(
         legacy_order_rules(SubSeq(rules, 1, Len(rules) - 1)),
         rules[Len(rules)])

\* src/rules.py lines 102-142: apply_dynamic_rules of the JSONL lineage
legacy_apply_dynamic_rules(vision_text, rules, farms) ==
  IF rules = <<>> THEN NoRuleMatch
  ELSE
    LET document_lower == normalize_text(vision_text)
        document_identifier == normalize_identifier(vision_text)
        ordered == legacy_order_rules(rules)
        hits ==
          {i \in 1..Len(ordered) :
             vendor_rule_hit(ordered[i], document_lower, document_identifier,
                             farms)}
    IN  IF hits = {} THEN NoRuleMatch
        ELSE LET r == ordered[first_index(hits)]
             IN  RuleMatch(TagResult(r.farm_id, 99, FALSE), "dynamic_rule", r)

\* ------------------------------------------------------------------------
\* Python floats (IEEE 754 binary64) as the scoring classifier uses them
\* ------------------------------------------------------------------------
\* A float near a decimal value is m thousandths plus k units of
\* 2^-FloatGridBits thousandths; every double from 0.0625 up is such a pair
\* with a small k, and a sum or a difference is rounded to the nearest
\* double of its binade, ties to the even significand.
FloatGridBits == 56

Float(m, k) == [m |-> m, k |-> k]

float_lt(x, y) == x.m < y.m \/ (x.m = y.m /\ x.k < y.k)

float_le(x, y) == ~float_lt(y, x)

\* 2^e modulo n, fourteen bits at a step while e allows
RECURSIVE pow2_mod(_, _)
pow2_mod(e, n) ==
  IF e = 0 THEN 1 % n
  ELSE IF e >= 14 THEN (16384 * pow2_mod(e - 14, n)) % n
  ELSE (2 * pow2_mod(e - 1, n)) % n

\* the spacing of the doubles around x, in units of 2^-FloatGridBits;
\* 0 stands for a value so small that every pair met there is a double
ulp_units(x) ==
  IF x.m < 63 THEN 0
  ELSE IF float_lt(x, Float(125, 0)) THEN 1
  ELSE IF float_lt(x, Float(250, 0)) THEN 2
  ELSE IF float_lt(x, Float(500, 0)) THEN 4
  ELSE IF float_lt(x, Float(1000, 0)) THEN 8
  ELSE IF float_lt(x, Float(2000, 0)) THEN 16
  ELSE IF float_lt(x, Float(4000, 0)) THEN 32
  ELSE 64

\* x on the grid of 2^-FloatGridBits thousandths, modulo n grid units
grid_remainder(x, n) ==
  ((x.m % n) * pow2_mod(FloatGridBits, n) + (x.k % n)) % n

\* q is x modulo two spacings: down when under half a spacing, or at half
\* a spacing with the even double below
round_by_remainder(x, spacing, q) ==
  IF q % spacing = 0 THEN x
  ELSE IF 2 * (q % spacing) < spacing
            \/ (2 * (q % spacing) = spacing /\ q < spacing)
  THEN Float(x.m, x.k - (q % spacing))
  ELSE Float(x.m, x.k + (spacing - (q % spacing)))

round_to_spacing(x, spacing) ==
  IF spacing = 0 THEN x
  ELSE round_by_remainder(x, spacing, grid_remainder(x, 2 * spacing))

\* round to nearest, ties to even
float_round(x) == round_to_spacing(x, 1000 * ulp_units(x))

\* the double a decimal literal of m thousandths denotes
float_literal(m) == float_round(Float(m, 0))

float_add(x, y) == float_round(Float(x.m + y.m, x.k + y.k))

float_sub(x, y) == float_round(Float(x.m - y.m, x.k - y.k))

\* x / 2.0 is exact for every score above zero
float_half(x) == Float(x.m \div 2, x.k \div 2)

\* round(x, 2) in hundredths: the nearest hundredth of the exact value of
\* the double, an exact half going to the even hundredth
round_2(x) ==
  LET h == x.m \div 10
      d == x.m % 10
  IN  IF d < 5 THEN h
      ELSE IF d > 5 THEN h + 1
      ELSE IF x.k < 0 THEN h
      ELSE IF x.k > 0 THEN h + 1
      ELSE IF h % 2 = 0 THEN h ELSE h + 1

\* ------------------------------------------------------------------------
\* Scoring classifier (src/farm_tagger.py)
\* ------------------------------------------------------------------------
\* the entries of a list that count: kept by "if x", not blank once
\* stripped, and found lowercased in the document
matching_entries(entries, document_lower) ==
  {i \in 1..Len(entries) :
     /\ entries[i] # <<>>
     /\ str_lower(str_strip(entries[i])) # <<>>
     /\ str_contains(str_lower(str_strip(entries[i])), document_lower)}

\* score += increment, once for each of n matching entries
RECURSIVE add_matches(_, _, _)
add_matches(score, increment, n) ==
  IF n = 0 THEN score
  ELSE add_matches(float_add(score, increment), increment, n - 1)

\* lines 141-154: the vendors of the farm in dict order
RECURSIVE score_vendors(_, _, _)
score_vendors(score, vendors, document_lower) ==
  IF vendors = <<>> THEN score
  ELSE score_vendors(
         add_matches(
           add_matches(score, float_literal(1000),
             Cardinality(matching_entries(Head(vendors).identifiers,
                                          document_lower))),
           float_literal(250),
           Cardinality(matching_entries(Head(vendors).keywords,
                                        document_lower))),
         Tail(vendors), document_lower)

\* the matched rule names of a farm, as a set
matched_rules_of(document_lower, farm) ==
  (IF matching_entries(farm.identifiers, document_lower) # {}
   THEN {"identifier_match"} ELSE {})
    \cup (IF matching_entries(farm.keywords, document_lower) # {}
          THEN {"farm_keyword"} ELSE {})
    \cup (IF \E v \in 1..Len(farm.vendors) :
               matching_entries(farm.vendors[v].identifiers,
                                document_lower) # {}
          THEN {"vendor_identifier_match"} ELSE {})
    \cup (IF \E v \in 1..Len(farm.vendors) :
               matching_entries(farm.vendors[v].keywords, document_lower) # {}
          THEN {"vendor_keyword"} ELSE {})

_score_farm(document_lower, farm) ==
  [score |->
     score_vendors(
       add_matches(
         add_matches(Float(0, 0), float_literal(1000),
           Cardinality(matching_entries(farm.identifiers, document_lower))),
         float_literal(150),
         Cardinality(matching_entries(farm.keywords, document_lower))),
       farm.vendors, document_lower),
   matched_rules |-> matched_rules_of(document_lower, farm)]

TagCandidate(farm_id, score, matched_rules) ==
  [farm_id |-> farm_id, score |-> score, matched_rules |-> matched_rules]

\* list.sort(key=score, reverse=True) is stable: a candidate goes before
\* the first candidate of a smaller score
RECURSIVE candidates_insert(_, _)
candidates_insert(ordered, c) ==
  IF ordered = <<>> THEN <<c>>
  ELSE IF float_lt(Head(ordered).score, c.score) THEN <<c>> \o ordered
  ELSE <<Head(ordered)>> \o candidates_insert(Tail(ordered), c)

RECURSIVE sort_candidates(_)
sort_candidates(candidates) ==
  IF candidates = <<>> THEN <<>>
  ELSE candidates_insert(
         sort_candidates(SubSeq(candidates, 1, Len(candidates) - 1)),
         candidates[Len(candidates)])

candidate_for(farm, scored) ==
  TagCandidate(farm.id, scored.score, scored.matched_rules)

\* lines 196-210
scored_candidates(document_lower, farms) ==
  sort_candidates(
    SelectSeq([i \in 1..Len(farms) |->
                 candidate_for(farms[i], _score_farm(document_lower, farms[i]))],
              LAMBDA c : float_lt(Float(0, 0), c.score)))

\* lines 214-216
top_score_of(candidates) ==
  IF candidates # <<>> THEN candidates[1].score ELSE Float(0, 0)

second_score_of(candidates) ==
  IF Len(candidates) > 1 THEN candidates[2].score ELSE Float(0, 0)

gap_of(candidates) ==
  float_sub(top_score_of(candidates), second_score_of(candidates))

\* a table whose first two rows do not look at the gap
threshold_table_gapless(top_score, gap) ==
  IF float_le(float_literal(1000), top_score) THEN float_literal(950)
  ELSE IF float_le(float_literal(500), top_score) THEN float_literal(700)
  ELSE float_half(top_score)

\* lines 227-234: the threshold table
threshold_table(top_score, gap) ==
  IF float_le(float_literal(1000), top_score)
       /\ float_le(float_literal(500), gap)
  THEN float_literal(950)
  ELSE IF float_le(float_literal(1000), top_score)
            /\ float_le(float_literal(300), gap)
  THEN float_literal(850)
  ELSE IF float_le(float_literal(500), top_score) THEN float_literal(700)
  ELSE float_half(top_score)

\* min(confidence, 0.70)
cap_at_070(confidence) ==
  IF float_lt(float_literal(700), confidence) THEN float_literal(700)
  ELSE confidence

has_identifier_match(candidate) ==
  candidate.matched_rules
    \cap {"identifier_match", "vendor_identifier_match"} # {}

\* lines 237-240: the top candidate matched keywords only and the second
\* candidate is close
keyword_guard(candidates, gap) ==
  /\ candidates # <<>>
  /\ ~has_identifier_match(candidates[1])
  /\ Len(candidates) >= 2
  /\ float_lt(gap, float_literal(300))

\* the vendor keys of the first farm of that id
vendor_keys_of(farm_id, farms) ==
  LET hits == {i \in 1..Len(farms) : farms[i].id = farm_id}
      farm == farms[CHOOSE i \in hits : \A j \in hits : i <= j]
  IN  IF hits = {} THEN {}
      ELSE {farm.vendors[v].key : v \in 1..Len(farm.vendors)}

\* a guard that never fires
vendor_ambiguity_guard_off(candidates, farms) == FALSE

\* lines 249-263: the two top candidates share a vendor key and the top
\* candidate has no identifier-level match
vendor_ambiguity_guard(candidates, farms) ==
  /\ Len(candidates) >= 2
  /\ vendor_keys_of(candidates[1].farm_id, farms)
       \cap vendor_keys_of(candidates[2].farm_id, farms) # {}
  /\ ~has_identifier_match(candidates[1])

\* a review flag that a low confidence never sets
low_confidence_ignored(confidence) == FALSE

\* line 245: confidence < 0.85
low_confidence(confidence) == float_lt(confidence, float_literal(850))

\* what tag_document_text returns: the TagResult, its reason and its
\* candidates
Tagged(tag, reason, all_candidates) ==
  [tag |-> tag, reason |-> reason, all_candidates |-> all_candidates]

\* lines 236-275: the guards on the confidence of the threshold table
tag_guarded(candidates, table, keyword_guard_fired, vendor_guard_fired) ==
  Tagged(
    TagResult(candidates[1].farm_id,
              round_2(IF keyword_guard_fired \/ vendor_guard_fired
                      THEN cap_at_070(table) ELSE table),
              IF keyword_guard_fired \/ vendor_guard_fired THEN TRUE
              ELSE low_confidence(table)),
    IF vendor_guard_fired THEN "Vendor ambiguity"
    ELSE IF keyword_guard_fired
    THEN "Multiple farm candidates with similar keyword scores; identifier match required"
    ELSE IF low_confidence(table) THEN "Low confidence"
    ELSE "High confidence match",
    candidates)

\* lines 214-234
tag_candidates(candidates, gap, farms) ==
  IF top_score_of(candidates) = Float(0, 0)
  THEN Tagged(TagResult(NoFarm, 0, TRUE), "Zero matches found", <<>>)
  ELSE tag_guarded(candidates,
                   threshold_table(top_score_of(candidates), gap),
                   keyword_guard(candidates, gap),
                   vendor_ambiguity_guard(candidates, farms))

tag_sorted(candidates, farms) ==
  tag_candidates(candidates, gap_of(candidates), farms)

tag_document_text(document_text, farms) ==
  IF farms = <<>>
  THEN Tagged(TagResult(NoFarm, 0, TRUE), "No farms configured", <<>>)
  ELSE tag_sorted(scored_candidates(str_lower(document_text), farms), farms)

\* ------------------------------------------------------------------------
\* Inputs of a call: what the collaborators may answer
\* ------------------------------------------------------------------------
TextBlank == <<" ", "\n">>
TextA == <<"A", "#", "1">>
\* TextA with punctuation noise of another scan
TextANoisy == <<"a", " ", "#", " ", "1">>
TextB == <<"B", "2">>
Texts == {TextBlank, TextA, TextANoisy, TextB}

VisionOutcomes ==
  {[raised |-> TRUE, text |-> <<>>]}
    \cup {[raised |-> FALSE, text |-> t] : t \in Texts}

TagOutcomes ==
  {[raised |-> TRUE, result |-> ZeroMatchResult]}
    \cup {[raised |-> FALSE, result |-> r] : r \in TagResults}

ParseOutcomes ==
  {[raised |-> TRUE, payload |-> NoPayload]}
    \cup {[raised |-> FALSE, payload |-> p] : p \in Payloads}

\* every answer is possible
FreeEnv ==
  [path_ok |-> BOOLEAN, vision |-> VisionOutcomes, tag |-> TagOutcomes,
   parse |-> ParseOutcomes]

\* ------------------------------------------------------------------------
\* State
\* ------------------------------------------------------------------------
Workers == {1, 2}

VARIABLES
  documents,            \* table documents: rows [doc_id, content_fingerprint]
  transactions,         \* table transactions
  tagging_events,       \* table tagging_events: the doc_ids audited
  manual_review_queue,  \* table manual_review_queue: the doc_ids queued
  next_uuid,            \* uuid4 as a fresh number
  calls,                \* calls of process_single_invoice started or reserved
  pc,                   \* per worker: position in main / process_batch /
                        \* process_single_invoice
  loc,                  \* per worker: locals of process_single_invoice
  run,                  \* per worker: locals of main and process_batch
  env,                  \* per worker: the answers its collaborators may give
  ledger,               \* JSONL lineage: data/transactions.jsonl
  seen_content_fingerprints,  \* JSONL lineage: process-wide set
  seen_invoice_keys,          \* JSONL lineage: process-wide set
  legacy_result,        \* JSONL lineage: what the last call returned
  cl,                   \* the classification stage on its own: its inputs,
                        \* its position and what each classifier returned
  rules_file,           \* config/dynamic_rules.json: its JSON payload
  rf_ret,               \* what the last rules-file operation returned
  fs,                   \* the files a rewrite or the review CLI works on
  wr                    \* the process at work on them: its position and
                        \* its locals

db_vars == <<documents, transactions, tagging_events, manual_review_queue>>
legacy_vars == <<ledger, seen_content_fingerprints, seen_invoice_keys, legacy_result>>
engine_vars == <<cl, rules_file, rf_ret, fs, wr>>
vars == <<documents, transactions, tagging_events, manual_review_queue,
          next_uuid, calls, pc, loc, run, env,
          ledger, seen_content_fingerprints, seen_invoice_keys, legacy_result,
          cl, rules_file, rf_ret, fs, wr>>

\* SQL NULL in transactions.duplicate_of_doc_id
NullDocId == 0

NoResult == [status |-> "none", reason |-> ""]

\* locals of process_single_invoice before its first statement; stages,
\* failed_stage, fp_held and wrote are history of the call kept for the
\* properties
InitLoc ==
  [doc_id |-> NullDocId, vision_text |-> <<>>,
   content_fingerprint |-> compute_content_fingerprint(<<>>),
   tag_result |-> ZeroMatchResult, invoice_data |-> NoPayload,
   parse_error_msg |-> "", parse_status_val |-> PARSE_STATUS_SUCCESS,
   parse_failure_reason_val |-> "", vendor_key |-> <<>>, invoice_key |-> NoKey,
   original_doc_id |-> NullDocId, result |-> NoResult,
   stages |-> <<>>, failed_stage |-> "", raised |-> "none", fp_held |-> FALSE,
   wrote |-> [documents |-> 0, transactions |-> 0, tagging_events |-> 0,
              manual_review_queue |-> 0]]

InitRun ==
  [mode |-> "none", total |-> 0, i |-> 0, auto_processed |-> 0,
   manual_review |-> 0, skipped_duplicates |-> 0, failed |-> 0,
   last_status |-> "none", exit_code |-> 0]

\* ------------------------------------------------------------------------
\* Storage (schema.sql is not part of the sources: the two uniqueness
\* constraints are those the specification names)
\* ------------------------------------------------------------------------
\* UNIQUE on documents.content_fingerprint; NULLs never collide
documents_fingerprint_unique(docs, content_fingerprint) ==
  \/ content_fingerprint = NullFingerprint
  \/ \A d \in docs : d.content_fingerprint # content_fingerprint

\* the index dropped from the schema
transactions_invoice_key_unique_absent(txs, row) == TRUE

\* UNIQUE index idx_transactions_invoice_key_original on
\* transactions(invoice_key) over the rows with duplicate_detected = 0
transactions_invoice_key_unique(txs, row) ==
  \/ row.invoice_key = NoKey
  \/ row.duplicate_detected
  \/ \A t \in txs : t.duplicate_detected \/ t.invoice_key # row.invoice_key

\* ------------------------------------------------------------------------
\* Row builders and inserts (src/cli/main.py)
\* ------------------------------------------------------------------------
\* INSERT OR IGNORE in place of the caught IntegrityError: always True
insert_document_or_ignore(docs, doc_id, content_fingerprint) ==
  IF documents_fingerprint_unique(docs, content_fingerprint)
  THEN [ok |-> TRUE,
        docs |-> docs \cup {[doc_id |-> doc_id,
                             content_fingerprint |-> content_fingerprint]}]
  ELSE [ok |-> TRUE, docs |-> docs]

\* returns [ok, docs]: ok = FALSE on a content fingerprint duplicate
insert_document(docs, doc_id, content_fingerprint) ==
  IF documents_fingerprint_unique(docs, content_fingerprint)
  THEN [ok |-> TRUE,
        docs |-> docs \cup {[doc_id |-> doc_id,
                             content_fingerprint |-> content_fingerprint]}]
  ELSE [ok |-> FALSE, docs |-> docs]

create_transaction_record(doc_id, content_fingerprint, farm_tag_result, parsed_invoice, vendor_key, error) ==
  [doc_id |-> doc_id,
   farm_id |-> IF farm_tag_result.top # NoFarm THEN farm_tag_result.top ELSE NoFarm,
   confidence |-> IF farm_tag_result.top # NoFarm
                  THEN farm_tag_result.confidence ELSE 0,
   needs_manual_review |-> IF farm_tag_result.top # NoFarm
                           THEN farm_tag_result.needs_manual_review ELSE TRUE,
   parsed |-> IF parsed_invoice.present THEN parsed_invoice ELSE NoPayload,
   invoice_key |-> IF parsed_invoice.present
                   THEN compute_invoice_key(vendor_key, parsed_invoice)
                   ELSE NoKey,
   vendor_key |-> vendor_key,
   error |-> error,
   content_fingerprint |-> content_fingerprint,
   duplicate_detected |-> FALSE, duplicate_reason |-> "",
   duplicate_of |-> NullDocId,
   total_cents |-> 0]

create_duplicate_stub_record(doc_id, content_fingerprint, farm_tag_result, parsed_invoice, vendor_key, invoice_key, duplicate_of_doc_id) ==
  [doc_id |-> doc_id,
   farm_id |-> IF farm_tag_result.top # NoFarm THEN farm_tag_result.top ELSE NoFarm,
   confidence |-> IF farm_tag_result.top # NoFarm
                  THEN farm_tag_result.confidence ELSE 0,
   needs_manual_review |-> FALSE,
   parsed |-> [NoPayload EXCEPT !.vendor_name = parsed_invoice.vendor_name],
   invoice_key |-> invoice_key,
   vendor_key |-> vendor_key,
   error |-> "",
   content_fingerprint |-> content_fingerprint,
   duplicate_detected |-> TRUE, duplicate_reason |-> "invoice_key",
   duplicate_of |-> duplicate_of_doc_id,
   total_cents |-> 0]

\* the row INSERT INTO transactions writes for a record
transaction_row(record, status, error_reason, duplicate_detected, duplicate_reason, duplicate_of_doc_id, parse_status, parse_failure_reason) ==
  [doc_id |-> record.doc_id, farm_key |-> record.farm_id,
   vendor_key |-> record.vendor_key, parsed |-> record.parsed,
   total_cents |-> record.total_cents,
   confidence |-> record.confidence,
   needs_manual_review |-> record.needs_manual_review,
   status |-> status,
   error_reason |-> IF error_reason # "" THEN error_reason ELSE record.error,
   content_fingerprint |-> record.content_fingerprint,
   invoice_key |-> record.invoice_key,
   duplicate_detected |-> duplicate_detected,
   duplicate_reason |-> duplicate_reason,
   duplicate_of_doc_id |-> duplicate_of_doc_id,
   parse_status |-> parse_status,
   parse_failure_reason |-> parse_failure_reason]

\* returns [ok, txs]: ok = FALSE is sqlite3.IntegrityError on the invoice key
insert_transaction_record(txs, record, status, error_reason, duplicate_detected, duplicate_reason, duplicate_of_doc_id, parse_status, parse_failure_reason) ==
  LET row == transaction_row(record, status, error_reason, duplicate_detected,
                             duplicate_reason, duplicate_of_doc_id,
                             parse_status, parse_failure_reason)
  IN  IF transactions_invoice_key_unique(txs, row)
      THEN [ok |-> TRUE, txs |-> txs \cup {row}]
      ELSE [ok |-> FALSE, txs |-> txs]

\* insert_transaction_record(record, status="failed", error_reason=record["error"])
insert_failed(txs, record) ==
  insert_transaction_record(txs, record, "failed", record.error, FALSE, "",
                            NullDocId, PARSE_STATUS_SUCCESS, "").txs

\* ------------------------------------------------------------------------
\* process_single_invoice, SQLite lineage (src/cli/main.py), by stage
\* ------------------------------------------------------------------------
\* the call's history: one more stage entered
EnterStage(l, stage) == [l EXCEPT !.stages = Append(@, stage)]

\* the call's history: rows this step inserted
Wrote(l, d, t, e, q) ==
  [l EXCEPT !.wrote = [documents |-> @.documents + d,
                       transactions |-> @.transactions + t,
                       tagging_events |-> @.tagging_events + e,
                       manual_review_queue |-> @.manual_review_queue + q]]

Returns(l, status, reason) ==
  [l EXCEPT !.result = [status |-> status, reason |-> reason]]

\* the handler of the three stages before the fingerprint: a document row
\* without fingerprint, one failed transaction, return
FailBeforeFingerprint(w, l, reason, error) ==
  LET record == create_transaction_record(l.doc_id, l.content_fingerprint,
                                          ZeroMatchResult, NoPayload, <<>>, error)
  IN  /\ documents' = insert_document(documents, l.doc_id, NullFingerprint).docs
      /\ transactions' = insert_failed(transactions, record)
      /\ loc' = [loc EXCEPT ![w] =
                   Returns(Wrote([l EXCEPT !.failed_stage = l.stages[Len(l.stages)]],
                                 1, 1, 0, 0), "failed", reason)]
      /\ pc' = [pc EXCEPT ![w] = "returned"]
      /\ UNCHANGED <<tagging_events, manual_review_queue>>

\* lines 601-621
PsiPathValidation(w) ==
  /\ pc[w] = "psi_path"
  /\ \E ok \in env[w].path_ok :
       LET l == EnterStage(loc[w], "path_validation")
       IN  IF ok
           THEN /\ loc' = [loc EXCEPT ![w] = l]
                /\ pc' = [pc EXCEPT ![w] = "psi_vision"]
                /\ UNCHANGED db_vars
           ELSE FailBeforeFingerprint(w, l, "path_validation", "path_validation")
  /\ UNCHANGED <<next_uuid, calls, run, env, engine_vars, legacy_vars>>

\* lines 623-643
PsiTextExtraction(w) ==
  /\ pc[w] = "psi_vision"
  /\ \E out \in env[w].vision :
       LET l == EnterStage(loc[w], "text_extraction")
       IN  IF out.raised
           THEN FailBeforeFingerprint(w, l, "vision_extraction_failed",
                                      "vision_extraction_failed")
           ELSE /\ loc' = [loc EXCEPT ![w] = [l EXCEPT !.vision_text = out.text]]
                /\ pc' = [pc EXCEPT ![w] = "psi_empty"]
                /\ UNCHANGED db_vars
  /\ UNCHANGED <<next_uuid, calls, run, env, engine_vars, legacy_vars>>

\* lines 645-665
PsiEmptyTextCheck(w) ==
  /\ pc[w] = "psi_empty"
  /\ LET l == EnterStage(loc[w], "empty_text_check")
     IN  IF str_strip(l.vision_text) = <<>>
         THEN FailBeforeFingerprint(w, l, "empty_extraction",
                                    "empty_vision_extraction")
         ELSE /\ loc' = [loc EXCEPT ![w] =
                   [l EXCEPT !.vision_text = str_strip(l.vision_text),
                             !.content_fingerprint =
                                compute_content_fingerprint(str_strip(l.vision_text))]]
              /\ pc' = [pc EXCEPT ![w] = "psi_fingerprint"]
              /\ UNCHANGED db_vars
  /\ UNCHANGED <<next_uuid, calls, run, env, engine_vars, legacy_vars>>

\* the answer of insert_document ignored
fingerprint_duplicate_never(ins) == FALSE

\* lines 666-673: "if not insert_document(...)" on the answer of the insert
fingerprint_duplicate(ins) == ~ins.ok

\* lines 666-676
PsiFingerprintCheck(w) ==
  /\ pc[w] = "psi_fingerprint"
  /\ LET l0  == EnterStage(loc[w], "fingerprint_check")
         l   == [l0 EXCEPT !.fp_held =
                   \E d \in documents : d.content_fingerprint = l0.content_fingerprint]
         ins == insert_document(documents, l.doc_id, l.content_fingerprint)
     IN  IF fingerprint_duplicate(ins)
         THEN /\ loc' = [loc EXCEPT ![w] =
                   Returns(l, "skipped_duplicate", "content_fingerprint")]
              /\ pc' = [pc EXCEPT ![w] = "returned"]
              /\ UNCHANGED documents
         ELSE /\ documents' = ins.docs
              /\ loc' = [loc EXCEPT ![w] = Wrote(l, 1, 0, 0, 0)]
              /\ pc' = [pc EXCEPT ![w] = "psi_classify"]
  /\ UNCHANGED <<transactions, tagging_events, manual_review_queue,
                 next_uuid, calls, run, env, engine_vars, legacy_vars>>

\* lines 678-696: apply_dynamic_rules, then tag_document_text, then the audit
PsiClassification(w) ==
  /\ pc[w] = "psi_classify"
  /\ \E out \in env[w].tag :
       LET l == EnterStage(loc[w], "classification")
       IN  IF out.raised
           THEN LET record == create_transaction_record(l.doc_id,
                                l.content_fingerprint, ZeroMatchResult,
                                NoPayload, <<>>, "farm_tagging_failed")
                IN  /\ transactions' = insert_failed(transactions, record)
                    /\ loc' = [loc EXCEPT ![w] =
                         Returns(Wrote([l EXCEPT !.failed_stage = "classification"],
                                       0, 1, 0, 0),
                                 "failed", "farm_tagging_failed")]
                    /\ pc' = [pc EXCEPT ![w] = "returned"]
                    /\ UNCHANGED tagging_events
           ELSE /\ tagging_events' = tagging_events \cup {l.doc_id}
                /\ loc' = [loc EXCEPT ![w] =
                     Wrote([l EXCEPT !.tag_result = out.result], 0, 0, 1, 0)]
                /\ pc' = [pc EXCEPT ![w] = "psi_parse"]
                /\ UNCHANGED transactions
  /\ UNCHANGED <<documents, manual_review_queue, next_uuid, calls, run, env, engine_vars,
                 legacy_vars>>

\* lines 698-710
PsiStructuredParse(w) ==
  /\ pc[w] = "psi_parse"
  /\ \E out \in env[w].parse :
       LET l == EnterStage(loc[w], "structured_parse")
       IN  IF out.raised
           THEN /\ loc' = [loc EXCEPT ![w] =
                     [l EXCEPT !.parse_error_msg = "llm_parsing_failed",
                               !.parse_status_val = PARSE_STATUS_INVALID_JSON,
                               !.parse_failure_reason_val = PARSE_STATUS_INVALID_JSON,
                               !.invoice_data = NoPayload,
                               !.failed_stage = "structured_parse"]]
                /\ pc' = [pc EXCEPT ![w] = "psi_finalize"]
           ELSE /\ loc' = [loc EXCEPT ![w] = [l EXCEPT !.invoice_data = out.payload]]
                /\ pc' = [pc EXCEPT ![w] = "psi_validate"]
  /\ UNCHANGED <<db_vars, next_uuid, calls, run, env, engine_vars, legacy_vars>>

\* lines 712-718; an exception of validate_invoice_payload leaves the call
PsiPayloadValidation(w) ==
  /\ pc[w] = "psi_validate"
  /\ LET l == EnterStage(loc[w], "payload_validation")
         v == validate_invoice_payload(l.invoice_data)
     IN  IF v.raised # "none"
         THEN /\ loc' = [loc EXCEPT ![w] =
                   [l EXCEPT !.raised = v.raised,
                             !.failed_stage = "payload_validation"]]
              /\ pc' = [pc EXCEPT ![w] = "raised"]
         ELSE IF ~v.valid
         THEN /\ loc' = [loc EXCEPT ![w] =
                   [l EXCEPT !.parse_error_msg = "validation_failed",
                             !.parse_status_val = PARSE_STATUS_VALIDATION_FAILED,
                             !.parse_failure_reason_val = v.reason,
                             !.invoice_data = NoPayload,
                             !.failed_stage = "payload_validation"]]
              /\ pc' = [pc EXCEPT ![w] = "psi_finalize"]
         ELSE /\ loc' = [loc EXCEPT ![w] = l]
              /\ pc' = [pc EXCEPT ![w] = "psi_finalize"]
  /\ UNCHANGED <<db_vars, next_uuid, calls, run, env, engine_vars, legacy_vars>>

\* the review test dropped
needs_review_never(tag_result) == FALSE

\* line 752: the test of the manual-review branch
needs_review(tag_result) ==
  tag_result.needs_manual_review \/ tag_result.confidence < AutoThreshold

\* the order of src/main.py: the review test before the parse error test
route_review_first(tag_result, parse_error_msg) ==
  IF needs_review(tag_result) THEN "pending_manual"
  ELSE IF parse_error_msg # "" THEN "failed"
  ELSE "auto"

\* lines 728, 752, 777: which of the three finalisations a call takes
route(tag_result, parse_error_msg) ==
  IF parse_error_msg # "" THEN "failed"
  ELSE IF needs_review(tag_result) THEN "pending_manual"
  ELSE "auto"

\* the lookup answering no row
lookup_original_none(txs, invoice_key) == {NullDocId}

\* lines 798-807: SELECT doc_id FROM transactions WHERE invoice_key = ? AND
\* duplicate_detected = 0 LIMIT 1; the doc_ids the query may answer
lookup_original(txs, invoice_key) ==
  LET hits == {t \in txs : t.invoice_key = invoice_key /\ ~t.duplicate_detected}
  IN  IF hits = {} \/ invoice_key = NoKey THEN {NullDocId}
      ELSE {t.doc_id : t \in hits}

\* lines 720-793; the insert of the pending_manual path is not guarded, the
\* one of the auto path is
PsiFinalize(w) ==
  /\ pc[w] = "psi_finalize"
  /\ LET l0 == loc[w]
         vendor_key ==
           IF l0.invoice_data.present /\ l0.tag_result.top # NoFarm
           THEN resolve_vendor_key(l0.tag_result.top,
                                   l0.invoice_data.vendor_name, farms_config)
           ELSE <<>>
         l == [l0 EXCEPT !.vendor_key = vendor_key]
         kind == route(l.tag_result, l.parse_error_msg)
     IN  CASE kind = "failed" ->
                LET record == [create_transaction_record(l.doc_id,
                                 l.content_fingerprint, l.tag_result, NoPayload,
                                 <<>>, l.parse_error_msg)
                               EXCEPT !.farm_id = NoFarm]
                    ins == insert_transaction_record(transactions, record,
                             "failed", l.parse_error_msg, FALSE, "", NullDocId,
                             l.parse_status_val, l.parse_failure_reason_val)
                IN  /\ transactions' = ins.txs
                    /\ loc' = [loc EXCEPT ![w] =
                         Returns(Wrote(l, 0, 1, 0, 0), "failed",
                                 IF l.parse_status_val = PARSE_STATUS_INVALID_JSON
                                 THEN "llm_parsing_failed" ELSE "validation_failed")]
                    /\ pc' = [pc EXCEPT ![w] = "returned"]
                    /\ UNCHANGED manual_review_queue
           [] kind = "pending_manual" ->
                LET record == [create_transaction_record(l.doc_id,
                                 l.content_fingerprint, l.tag_result,
                                 l.invoice_data, vendor_key, "")
                               EXCEPT !.farm_id = NoFarm,
                                      !.total_cents =
                                        normalize_total_to_cents(l.invoice_data.total_amount).cents]
                    ins == insert_transaction_record(transactions, record,
                             "pending_manual", "", FALSE, "", NullDocId,
                             PARSE_STATUS_SUCCESS, "")
                    queued == IF l.doc_id \in manual_review_queue THEN 0 ELSE 1
                IN  /\ manual_review_queue' = manual_review_queue \cup {l.doc_id}
                    /\ transactions' = ins.txs
                    /\ IF ins.ok
                       THEN /\ loc' = [loc EXCEPT ![w] =
                                 Returns(Wrote(l, 0, 1, 0, queued),
                                         "manual_review", "tag_reason")]
                            /\ pc' = [pc EXCEPT ![w] = "returned"]
                       ELSE /\ loc' = [loc EXCEPT ![w] =
                                 [Wrote(l, 0, 0, 0, queued)
                                  EXCEPT !.raised = "IntegrityError"]]
                            /\ pc' = [pc EXCEPT ![w] = "raised"]
           [] OTHER ->
                LET invoice_key == compute_invoice_key(vendor_key, l.invoice_data)
                    record == [create_transaction_record(l.doc_id,
                                 l.content_fingerprint, l.tag_result,
                                 l.invoice_data, vendor_key, "")
                               EXCEPT !.total_cents =
                                        normalize_total_to_cents(l.invoice_data.total_amount).cents]
                    ins == insert_transaction_record(transactions, record,
                             "auto", "", FALSE, "", NullDocId,
                             PARSE_STATUS_SUCCESS, "")
                IN  /\ transactions' = ins.txs
                    /\ UNCHANGED manual_review_queue
                    /\ IF ins.ok
                       THEN /\ loc' = [loc EXCEPT ![w] =
                                 Returns(Wrote([l EXCEPT !.invoice_key = invoice_key],
                                               0, 1, 0, 0), "success", "")]
                            /\ pc' = [pc EXCEPT ![w] = "returned"]
                       ELSE /\ loc' = [loc EXCEPT ![w] =
                                 [l EXCEPT !.invoice_key = invoice_key]]
                            /\ pc' = [pc EXCEPT ![w] = "psi_dup_lookup"]
  /\ UNCHANGED <<documents, tagging_events, next_uuid, calls, run, env, engine_vars,
                 legacy_vars>>

\* lines 794-807: the except branch up to the lookup of the original
PsiDuplicateLookup(w) ==
  /\ pc[w] = "psi_dup_lookup"
  /\ \E original_doc_id \in lookup_original(transactions, loc[w].invoice_key) :
       loc' = [loc EXCEPT ![w] = [@ EXCEPT !.original_doc_id = original_doc_id]]
  /\ pc' = [pc EXCEPT ![w] = "psi_stub_insert"]
  /\ UNCHANGED <<db_vars, next_uuid, calls, run, env, engine_vars, legacy_vars>>

\* lines 808-835: the duplicate stub and the return
PsiStubInsert(w) ==
  /\ pc[w] = "psi_stub_insert"
  /\ LET l == loc[w]
         stub_record == create_duplicate_stub_record(l.doc_id,
                          l.content_fingerprint, l.tag_result, l.invoice_data,
                          l.vendor_key, l.invoice_key, l.original_doc_id)
         ins == insert_transaction_record(transactions, stub_record,
                  "duplicate", "", TRUE, "invoice_key", l.original_doc_id,
                  PARSE_STATUS_SUCCESS, "")
     IN  /\ transactions' = ins.txs
         /\ IF ins.ok
            THEN /\ loc' = [loc EXCEPT ![w] =
                      Returns(Wrote(l, 0, 1, 0, 0), "skipped_duplicate",
                              "invoice_key")]
                 /\ pc' = [pc EXCEPT ![w] = "returned"]
            ELSE /\ loc' = [loc EXCEPT ![w] = [l EXCEPT !.raised = "IntegrityError"]]
                 /\ pc' = [pc EXCEPT ![w] = "raised"]
  /\ UNCHANGED <<documents, tagging_events, manual_review_queue, next_uuid,
                 calls, run, env, engine_vars, legacy_vars>>

\* ------------------------------------------------------------------------
\* main and process_batch, SQLite lineage (src/cli/main.py)
\* ------------------------------------------------------------------------
\* a process is not running
StartPoints == {"idle", "exited", "batch_summary"}

\* lines 1051-1065: main without --all calls process_single_invoice
MainStart(w) ==
  /\ pc[w] \in StartPoints
  /\ calls < MaxCalls
  /\ run' = [run EXCEPT ![w] = [InitRun EXCEPT !.mode = "single"]]
  /\ loc' = [loc EXCEPT ![w] = [InitLoc EXCEPT !.doc_id = next_uuid]]
  /\ next_uuid' = next_uuid + 1
  /\ calls' = calls + 1
  /\ pc' = [pc EXCEPT ![w] = "psi_path"]
  /\ UNCHANGED <<db_vars, env, engine_vars, legacy_vars>>

\* lines 1066-1073: the exit code of main
exit_code_of(status) == IF status = "failed" THEN 1 ELSE 0

MainReturn(w) ==
  /\ pc[w] = "returned"
  /\ run[w].mode = "single"
  /\ run' = [run EXCEPT ![w] =
               [@ EXCEPT !.last_status = loc[w].result.status,
                         !.exit_code = exit_code_of(loc[w].result.status)]]
  /\ loc' = [loc EXCEPT ![w] = InitLoc]
  /\ pc' = [pc EXCEPT ![w] = "exited"]
  /\ UNCHANGED <<db_vars, next_uuid, calls, env, engine_vars, legacy_vars>>

\* an exception leaves main: the interpreter prints it and exits with 1
MainExcept(w) ==
  /\ pc[w] = "raised"
  /\ run[w].mode = "single"
  /\ run' = [run EXCEPT ![w] =
               [@ EXCEPT !.last_status = "exception", !.exit_code = 1]]
  /\ loc' = [loc EXCEPT ![w] = InitLoc]
  /\ pc' = [pc EXCEPT ![w] = "exited"]
  /\ UNCHANGED <<db_vars, next_uuid, calls, env, engine_vars, legacy_vars>>

\* lines 859-893: the files of the directory; none gives the empty summary
BatchStart(w) ==
  /\ pc[w] \in StartPoints
  /\ \E total \in 0..(MaxCalls - calls) :
       /\ run' = [run EXCEPT ![w] =
                    [InitRun EXCEPT !.mode = "batch", !.total = total]]
       /\ calls' = calls + total
       /\ pc' = [pc EXCEPT ![w] = IF total = 0 THEN "batch_summary"
                                  ELSE "batch_loop"]
  /\ loc' = [loc EXCEPT ![w] = InitLoc]
  /\ UNCHANGED <<db_vars, next_uuid, env, engine_vars, legacy_vars>>

\* lines 895-913: the next file
BatchCall(w) ==
  /\ pc[w] = "batch_loop"
  /\ run[w].i < run[w].total
  /\ loc' = [loc EXCEPT ![w] = [InitLoc EXCEPT !.doc_id = next_uuid]]
  /\ next_uuid' = next_uuid + 1
  /\ pc' = [pc EXCEPT ![w] = "psi_path"]
  /\ UNCHANGED <<db_vars, calls, run, env, engine_vars, legacy_vars>>

\* counters that leave a skipped duplicate out
count_result_without_duplicates(r, status) ==
  CASE status = "success"           -> [r EXCEPT !.auto_processed = @ + 1]
    [] status = "manual_review"     -> [r EXCEPT !.manual_review = @ + 1]
    [] status = "skipped_duplicate" -> r
    [] OTHER                        -> [r EXCEPT !.failed = @ + 1]

\* lines 936-967: the counters after a call returned
count_result(r, status) ==
  CASE status = "success"           -> [r EXCEPT !.auto_processed = @ + 1]
    [] status = "manual_review"     -> [r EXCEPT !.manual_review = @ + 1]
    [] status = "skipped_duplicate" -> [r EXCEPT !.skipped_duplicates = @ + 1]
    [] OTHER                        -> [r EXCEPT !.failed = @ + 1]

BatchReturn(w) ==
  /\ pc[w] = "returned"
  /\ run[w].mode = "batch"
  /\ run' = [run EXCEPT ![w] =
               [count_result(@, loc[w].result.status) EXCEPT !.i = @ + 1]]
  /\ loc' = [loc EXCEPT ![w] = InitLoc]
  /\ pc' = [pc EXCEPT ![w] = "batch_loop"]
  /\ UNCHANGED <<db_vars, next_uuid, calls, env, engine_vars, legacy_vars>>

\* lines 926-931: the record of the handler
unexpected_error_record(doc_id) ==
  create_transaction_record(doc_id, compute_content_fingerprint(<<>>),
                            ZeroMatchResult, NoPayload, <<>>, "unexpected_error")

\* the handler leaving the loop instead of continuing with the next file
BatchExcept_aborting(w) ==
  /\ pc[w] = "raised"
  /\ run[w].mode = "batch"
  /\ documents' = insert_document(documents, next_uuid, NullFingerprint).docs
  /\ transactions' = insert_failed(transactions, unexpected_error_record(next_uuid))
  /\ next_uuid' = next_uuid + 1
  /\ run' = [run EXCEPT ![w] = [@ EXCEPT !.failed = @ + 1, !.i = @ + 1]]
  /\ loc' = [loc EXCEPT ![w] = InitLoc]
  /\ pc' = [pc EXCEPT ![w] = "batch_summary"]
  /\ UNCHANGED <<tagging_events, manual_review_queue, calls, env, engine_vars, legacy_vars>>

\* lines 914-934: except Exception around the call
BatchExcept(w) ==
  /\ pc[w] = "raised"
  /\ run[w].mode = "batch"
  /\ documents' = insert_document(documents, next_uuid, NullFingerprint).docs
  /\ transactions' = insert_failed(transactions, unexpected_error_record(next_uuid))
  /\ next_uuid' = next_uuid + 1
  /\ run' = [run EXCEPT ![w] = [@ EXCEPT !.failed = @ + 1, !.i = @ + 1]]
  /\ loc' = [loc EXCEPT ![w] = InitLoc]
  /\ pc' = [pc EXCEPT ![w] = "batch_loop"]
  /\ UNCHANGED <<tagging_events, manual_review_queue, calls, env, engine_vars, legacy_vars>>

\* lines 969-994: the summary
BatchSummary(w) ==
  /\ pc[w] = "batch_loop"
  /\ run[w].i = run[w].total
  /\ pc' = [pc EXCEPT ![w] = "batch_summary"]
  /\ UNCHANGED <<db_vars, next_uuid, calls, loc, run, env, engine_vars, legacy_vars>>

Step(w) ==
  \/ MainStart(w) \/ MainReturn(w) \/ MainExcept(w)
  \/ BatchStart(w) \/ BatchCall(w) \/ BatchReturn(w) \/ BatchExcept(w)
  \/ BatchSummary(w)
  \/ PsiPathValidation(w) \/ PsiTextExtraction(w) \/ PsiEmptyTextCheck(w)
  \/ PsiFingerprintCheck(w) \/ PsiClassification(w) \/ PsiStructuredParse(w)
  \/ PsiPayloadValidation(w) \/ PsiFinalize(w)
  \/ PsiDuplicateLookup(w) \/ PsiStubInsert(w)

\* ------------------------------------------------------------------------
\* JSONL lineage (src/main.py): one action per call of process_single_invoice
\* ------------------------------------------------------------------------
\* doc_id is the file name
LegacyFiles == {<<"f1.pdf">>, <<"f2.pdf">>}

\* duplicate_of holds None, or whatever the builder stored
NoLink == [kind |-> "none", doc_id |-> <<>>, invoice_key |-> NoKey]
KeyLink(invoice_key) ==
  [kind |-> "invoice_key", doc_id |-> <<>>, invoice_key |-> invoice_key]

\* src/main.py lines 336-385
legacy_create_transaction_record(doc_id, content_fingerprint, farm_tag_result, parsed_invoice, vendor_key, error) ==
  [create_transaction_record(doc_id, content_fingerprint, farm_tag_result,
                             parsed_invoice, vendor_key, error)
   EXCEPT !.duplicate_of = NoLink]

\* src/main.py lines 388-416
legacy_create_duplicate_stub_record(doc_id, content_fingerprint, farm_tag_result, parsed_invoice, vendor_key, invoice_key) ==
  [create_duplicate_stub_record(doc_id, content_fingerprint, farm_tag_result,
                                parsed_invoice, vendor_key, invoice_key,
                                NullDocId)
   EXCEPT !.duplicate_of = KeyLink(invoice_key)]

\* src/main.py lines 219-249 with 198-216: a record of the same doc_id is
\* replaced in place, any other record is appended
append_jsonl(file, record) ==
  IF \E i \in 1..Len(file) : file[i].doc_id = record.doc_id
  THEN [i \in 1..Len(file) |->
          IF file[i].doc_id = record.doc_id THEN record ELSE file[i]]
  ELSE Append(file, record)

\* src/main.py lines 95-120: [fingerprints, keys] of the ledger's records
load_ledger_index(file) ==
  [fingerprints |-> {file[i].content_fingerprint : i \in 1..Len(file)},
   keys |-> {file[i].invoice_key : i \in 1..Len(file)} \ {NoKey}]

\* src/core/validator.py lines 123-186 on a normalized payload: TRUE when it
\* raises ValueError
validate_invoice_raises(data) ==
  data.vendor_name = <<>> \/ data.total_amount.kind = "none"

\* src/main.py lines 459-660; answers [result, ledger, fingerprints, keys]
legacy_process_single_invoice(doc_id, path_ok, vision, tag, parse, file, fingerprints, keys) ==
  LET empty_fp == compute_content_fingerprint(<<>>)
      out(status, reason, f, fps, ks) ==
        [result |-> [status |-> status, reason |-> reason], ledger |-> f,
         fingerprints |-> fps, keys |-> ks]
      failed_early(reason, error) ==
        out("failed", reason,
            append_jsonl(file, legacy_create_transaction_record(doc_id, empty_fp,
                           ZeroMatchResult, NoPayload, <<>>, error)),
            fingerprints, keys)
      vision_text == str_strip(vision.text)
      content_fingerprint == compute_content_fingerprint(vision_text)
      fps1 == fingerprints \cup {content_fingerprint}
      tag_result == tag.result
      invoice_data == IF parse.raised THEN NoPayload ELSE parse.payload
      parse_error ==
        IF parse.raised THEN "llm_parsing_failed"
        ELSE IF validate_invoice_raises(parse.payload) THEN "validation_failed"
        ELSE ""
      vendor_key ==
        IF invoice_data.present /\ tag_result.top # NoFarm
        THEN resolve_vendor_key(tag_result.top, invoice_data.vendor_name,
                                farms_config)
        ELSE <<>>
      invoice_key == compute_invoice_key(vendor_key, invoice_data)
  IN  IF ~path_ok THEN failed_early("path_validation", "path_validation")
      ELSE IF vision.raised
      THEN failed_early("vision_extraction_failed", "vision_extraction_failed")
      ELSE IF vision_text = <<>>
      THEN failed_early("empty_extraction", "empty_vision_extraction")
      ELSE IF content_fingerprint \in fingerprints
      THEN out("skipped_duplicate", "content_fingerprint", file, fingerprints, keys)
      ELSE IF tag.raised
      THEN out("failed", "farm_tagging_failed",
               append_jsonl(file, legacy_create_transaction_record(doc_id,
                              content_fingerprint, ZeroMatchResult, NoPayload,
                              <<>>, "farm_tagging_failed")),
               fps1, keys)
      ELSE IF tag_result.needs_manual_review \/ tag_result.confidence < AutoThreshold
      THEN out("manual_review", "tag_reason",
               append_jsonl(file, legacy_create_transaction_record(doc_id,
                              content_fingerprint, tag_result, invoice_data,
                              vendor_key, parse_error)),
               fps1, keys)
      ELSE IF parse_error # ""
      THEN out("failed", parse_error,
               append_jsonl(file, legacy_create_transaction_record(doc_id,
                              content_fingerprint, tag_result, NoPayload, <<>>,
                              parse_error)),
               fps1, keys)
      ELSE IF invoice_key # NoKey /\ invoice_key \in keys
      THEN out("skipped_duplicate", "invoice_key",
               append_jsonl(file, legacy_create_duplicate_stub_record(doc_id,
                              content_fingerprint, tag_result, invoice_data,
                              vendor_key, invoice_key)),
               fps1, keys)
      ELSE out("success", "",
               append_jsonl(file, legacy_create_transaction_record(doc_id,
                              content_fingerprint, tag_result, invoice_data,
                              vendor_key, "")),
               fps1, IF invoice_key # NoKey THEN keys \cup {invoice_key} ELSE keys)

\* the answers the JSONL lineage is run against
PayloadNoTotal == [PayloadA1 EXCEPT !.total_amount = NoAmount]

LegacyVisionOutcomes ==
  {[raised |-> TRUE, text |-> <<>>]}
    \cup {[raised |-> FALSE, text |-> t] : t \in {TextBlank, TextA, TextB}}

LegacyTagOutcomes ==
  {[raised |-> TRUE, result |-> ZeroMatchResult],
   [raised |-> FALSE, result |-> ScoredResult("farm_a", 85, FALSE)],
   [raised |-> FALSE, result |-> DynamicRuleResult("farm_a", TRUE)]}

LegacyParseOutcomes ==
  {[raised |-> TRUE, payload |-> NoPayload]}
    \cup {[raised |-> FALSE, payload |-> p] :
            p \in {PayloadA1, PayloadA2, PayloadNoTotal}}

LegacyProcessSingleInvoice ==
  \E doc_id \in LegacyFiles, path_ok \in BOOLEAN,
     vision \in LegacyVisionOutcomes, tag \in LegacyTagOutcomes,
     parse \in LegacyParseOutcomes :
    LET r == legacy_process_single_invoice(doc_id, path_ok, vision, tag, parse,
               ledger, seen_content_fingerprints, seen_invoice_keys)
    IN  /\ ledger' = r.ledger
        /\ seen_content_fingerprints' = r.fingerprints
        /\ seen_invoice_keys' = r.keys
        /\ legacy_result' = r.result
        /\ UNCHANGED <<db_vars, next_uuid, calls, pc, loc, run, env, engine_vars>>

\* src/main.py lines 829-830: a new process rebuilds the two sets
LegacyMainStart ==
  /\ seen_content_fingerprints' = load_ledger_index(ledger).fingerprints
  /\ seen_invoice_keys' = load_ledger_index(ledger).keys
  /\ legacy_result' = NoResult
  /\ UNCHANGED <<ledger, db_vars, next_uuid, calls, pc, loc, run, env, engine_vars>>

\* ------------------------------------------------------------------------
\* Specifications
\* ------------------------------------------------------------------------
\* a file: whether it is there and the lines written to it
NoContent == [exists |-> FALSE, lines |-> <<>>]
Content(lines) == [exists |-> TRUE, lines |-> lines]

\* no rewrite and no review under way
NoFiles == [path |-> NoContent, tmp |-> NoContent]
NoWriter == [pc |-> "idle"]

InitStore ==
  /\ documents = {}
  /\ transactions = {}
  /\ tagging_events = {}
  /\ manual_review_queue = {}
  /\ next_uuid = 1
  /\ calls = 0
  /\ pc = [w \in Workers |-> "idle"]
  /\ loc = [w \in Workers |-> InitLoc]
  /\ run = [w \in Workers |-> InitRun]
  /\ ledger = <<>>
  /\ seen_content_fingerprints = {}
  /\ seen_invoice_keys = {}
  /\ legacy_result = NoResult

InitCommon == InitStore /\ fs = NoFiles /\ wr = NoWriter

\* the classification stage and the rules file are not exercised
InitEngineIdle ==
  /\ cl = [pc |-> "idle"]
  /\ rules_file = [exists |-> FALSE]
  /\ rf_ret = <<>>

\* one process at a time, any answer of the collaborators
Init ==
  /\ InitCommon
  /\ InitEngineIdle
  /\ env = [w \in Workers |-> FreeEnv]

Next == Step(1)

Spec == Init /\ [][Next]_vars

\* two processes, one call of main each, on two given documents
ConcTexts == {TextA, TextANoisy, TextB}
ConcTagResults ==
  {ScoredResult("farm_a", 85, FALSE), ScoredResult("farm_b", 85, FALSE),
   DynamicRuleResult("farm_a", TRUE)}
ConcPayloads == {PayloadA1, PayloadA2, PayloadUnknownVendor}

ConcEnvs ==
  {[path_ok |-> {TRUE},
    vision |-> {[raised |-> FALSE, text |-> t]},
    tag |-> {[raised |-> FALSE, result |-> r]},
    parse |-> {[raised |-> FALSE, payload |-> p]}] :
     t \in ConcTexts, r \in ConcTagResults, p \in ConcPayloads}

InitConc ==
  /\ InitCommon
  /\ InitEngineIdle
  /\ env \in [Workers -> ConcEnvs]

ConcStart(w) ==
  /\ pc[w] = "idle"
  /\ MainStart(w)

NextConc ==
  \E w \in Workers :
    \/ ConcStart(w) \/ MainReturn(w) \/ MainExcept(w)
    \/ PsiPathValidation(w) \/ PsiTextExtraction(w) \/ PsiEmptyTextCheck(w)
    \/ PsiFingerprintCheck(w) \/ PsiClassification(w) \/ PsiStructuredParse(w)
    \/ PsiPayloadValidation(w) \/ PsiFinalize(w)
    \/ PsiDuplicateLookup(w) \/ PsiStubInsert(w)

SpecConc == InitConc /\ [][NextConc]_vars

\* the JSONL lineage alone
NextLegacy == LegacyProcessSingleInvoice \/ LegacyMainStart

SpecLegacy == Init /\ [][NextLegacy]_vars

\* ------------------------------------------------------------------------
\* The classification stage on its own (src/cli/main.py lines 678-682,
\* src/main.py lines 533-536): dynamic rules, then the scoring classifier
\* ------------------------------------------------------------------------
\* the entries of base at the indexes of S, in order
RECURSIVE pick(_, _)
pick(base, S) ==
  IF base = <<>> THEN <<>>
  ELSE (IF Len(base) \in S THEN pick(SubSeq(base, 1, Len(base) - 1), S)
                                  \o <<base[Len(base)]>>
        ELSE pick(SubSeq(base, 1, Len(base) - 1), S))

\* " ".join(words)
RECURSIVE join_words(_)
join_words(words) ==
  IF words = <<>> THEN <<>>
  ELSE IF Len(words) = 1 THEN words[1]
  ELSE words[1] \o <<" ">> \o join_words(Tail(words))

\* two farms; farm_b's vendor has the key of farm_a's vendor or its own
EngineFarms(farm_b_vendor_key) ==
  <<Farm("farm_a", <<<<"i">>>>, <<<<"p">>, <<"q">>, <<"r">>>>,
         <<Vendor(<<"p", "g">>, <<"P", "G">>, <<<<"j">>>>,
                  <<<<"s">>, <<"t">>>>)>>),
    Farm("farm_b", <<<<"k">>>>, <<<<"p">>>>,
         <<Vendor(farm_b_vendor_key, <<"B", "G">>, <<<<"m">>>>,
                  <<<<"x">>, <<"y">>, <<"s">>, <<"t">>>>)>>)>>

FarmConfigs == {EngineFarms(<<"p", "g">>), EngineFarms(<<"b", "g">>)}

\* documents for the scoring classifier: any choice of the one-letter
\* identifiers and keywords of the two farms
ScoringLetters == <<"i", "k", "p", "q", "r", "s", "t", "x", "y">>

ScoringTexts ==
  {pick(ScoringLetters, S) : S \in SUBSET (1..Len(ScoringLetters))}

\* documents for the rule engine: any choice of these words
RuleWords ==
  <<<<"P", "G">>, <<"0", "-", "1">>, <<"a", "b">>, <<"g", "a">>,
    <<"b", "b">>, <<"p", "a">>>>

RuleTexts == {join_words(pick(RuleWords, S)) : S \in SUBSET (1..Len(RuleWords))}

BillToContainsAllRule(tokens, farm_key) ==
  DynamicRule(BILL_TO_CONTAINS_ALL, tokens, <<>>, farm_key, <<>>, <<>>, <<>>,
              <<>>, <<>>, NoFarm, 100)

BillToMatchRule(match_text, farm_key) ==
  DynamicRule(BILL_TO_MATCH, <<>>, match_text, farm_key, <<>>, <<>>, <<>>,
              <<>>, <<>>, NoFarm, 100)

VendorAccountRule(rule_id, service_address_contains, keywords_any, farm_id, priority) ==
  DynamicRule("", <<>>, <<>>, NoFarm, rule_id, <<"P", "G">>, <<"0", "1">>,
              service_address_contains, keywords_any, farm_id, priority)

RuleUniverse ==
  {BillToContainsAllRule(<<<<"b", "b">>, <<"P", "A">>>>, "farm_a"),
   BillToContainsAllRule(<<<<"b", "b">>>>, NoFarm),
   BillToMatchRule(<<" ", "B", "B", " ">>, "farm_b"),
   VendorAccountRule(<<"a", "1">>, <<<<"a", "b">>>>, <<>>, "farm_a", 50),
   VendorAccountRule(<<"a", "2">>, <<>>, <<<<"g", "a">>>>, "farm_b", 100),
   VendorAccountRule(<<"b", "1">>, <<>>, <<>>, "farm_b", 200),
   VendorAccountRule(<<"b", "0">>, <<>>, <<>>, "farm_a", 200)}

\* lists of distinct rules
RuleLists ==
  {rules \in UNION {[1..n -> RuleUniverse] : n \in 0..MaxRules} :
     \A i, j \in 1..Len(rules) : rules[i] = rules[j] => i = j}

Lineages == {"sqlite", "jsonl"}

\* the locals of the stage before its first statement
ClStart(lineage, vision_text, dynamic_rules, farms) ==
  [pc |-> "start", lineage |-> lineage, vision_text |-> vision_text,
   dynamic_rules |-> dynamic_rules, farms |-> farms,
   rule_result |-> NoRuleMatch,
   scored |-> Tagged(ZeroMatchResult, "", <<>>),
   tag_result |-> ZeroMatchResult, scoring_consulted |-> FALSE]

\* src/cli/main.py line 680
ClApplyDynamicRules ==
  /\ cl.pc = "start"
  /\ cl.lineage = "sqlite"
  /\ LET r == apply_dynamic_rules(cl.vision_text, cl.dynamic_rules, cl.farms)
     IN  cl' = [cl EXCEPT !.rule_result = r,
                          !.tag_result = r.tag,
                          !.pc = IF r.found THEN "classified" ELSE "scoring"]
  /\ UNCHANGED <<db_vars, next_uuid, calls, pc, loc, run, env, legacy_vars,
                 rules_file, rf_ret, fs, wr>>

\* src/main.py line 534
ClLegacyApplyDynamicRules ==
  /\ cl.pc = "start"
  /\ cl.lineage = "jsonl"
  /\ LET r == legacy_apply_dynamic_rules(cl.vision_text, cl.dynamic_rules,
                                         cl.farms)
     IN  cl' = [cl EXCEPT !.rule_result = r,
                          !.tag_result = r.tag,
                          !.pc = IF r.found THEN "classified" ELSE "scoring"]
  /\ UNCHANGED <<db_vars, next_uuid, calls, pc, loc, run, env, legacy_vars,
                 rules_file, rf_ret, fs, wr>>

\* src/cli/main.py lines 681-682, src/main.py lines 535-536
ClTagDocumentText ==
  /\ cl.pc = "scoring"
  /\ LET t == tag_document_text(cl.vision_text, cl.farms)
     IN  cl' = [cl EXCEPT !.scored = t, !.tag_result = t.tag,
                          !.scoring_consulted = TRUE, !.pc = "classified"]
  /\ UNCHANGED <<db_vars, next_uuid, calls, pc, loc, run, env, legacy_vars,
                 rules_file, rf_ret, fs, wr>>

InitClassify ==
  /\ InitCommon
  /\ env = [w \in Workers |-> FreeEnv]
  /\ rules_file = [exists |-> FALSE]
  /\ rf_ret = <<>>
  /\ cl \in {ClStart(lineage, t, rules, EngineFarms(<<"p", "g">>)) :
               lineage \in Lineages, t \in RuleTexts, rules \in RuleLists}
            \cup {ClStart(lineage, t, <<>>, farms) :
                    lineage \in Lineages, t \in ScoringTexts,
                    farms \in FarmConfigs}

NextClassify ==
  ClApplyDynamicRules \/ ClLegacyApplyDynamicRules \/ ClTagDocumentText

SpecClassify == InitClassify /\ [][NextClassify]_vars

\* ------------------------------------------------------------------------
\* _score_farm under edits of the farms configuration
\* ------------------------------------------------------------------------
\* entries added to the configuration in one run
MaxEdits == 1

EditTexts ==
  {pick(<<"i", "k", "p", "q", "r">>, S) : S \in SUBSET (1..5)}

\* an identifier or keyword a farm already has, one it does not have, one
\* that no document holds, and a blank one
NewEntries == {<<"i">>, <<"q">>, <<"z">>, <<" ">>}

\* farms[f] with one more entry at the end of its identifiers or keywords
add_entry(farms, f, kind, entry) ==
  [farms EXCEPT ![f] =
     IF kind = "identifiers"
     THEN Farm(farms[f].id, Append(farms[f].identifiers, entry),
               farms[f].keywords, farms[f].vendors)
     ELSE Farm(farms[f].id, farms[f].identifiers,
               Append(farms[f].keywords, entry), farms[f].vendors)]

\* the score of every farm, as tag_document_text collects them (lines
\* 194-200)
RECURSIVE farm_scores(_, _)
farm_scores(document_text, farms) ==
  IF farms = <<>> THEN <<>>
  ELSE <<_score_farm(str_lower(document_text), Head(farms)).score>>
         \o farm_scores(document_text, Tail(farms))

NoEdit == [farm |-> 0, kind |-> "", entry |-> <<>>]

ScStart(document_text, farms) ==
  [pc |-> "scored", vision_text |-> document_text, farms |-> farms,
   scores |-> farm_scores(document_text, farms),
   previous_scores |-> farm_scores(document_text, farms),
   last_edit |-> NoEdit, edits |-> 0]

\* one entry is added to one farm and the document is scored again
ScAddEntry ==
  /\ cl.pc = "scored"
  /\ cl.edits < MaxEdits
  /\ \E f \in 1..Len(cl.farms), kind \in {"identifiers", "keywords"},
        entry \in NewEntries :
       cl' = [cl EXCEPT
                !.farms = add_entry(cl.farms, f, kind, entry),
                !.scores = farm_scores(cl.vision_text,
                                       add_entry(cl.farms, f, kind, entry)),
                !.previous_scores = cl.scores,
                !.last_edit = [farm |-> f, kind |-> kind, entry |-> entry],
                !.edits = @ + 1]
  /\ UNCHANGED <<db_vars, next_uuid, calls, pc, loc, run, env, legacy_vars,
                 rules_file, rf_ret, fs, wr>>

InitScoring ==
  /\ InitCommon
  /\ env = [w \in Workers |-> FreeEnv]
  /\ rules_file = [exists |-> FALSE]
  /\ rf_ret = <<>>
  /\ cl \in {ScStart(t, EngineFarms(<<"b", "g">>)) : t \in EditTexts}

NextScoring == ScAddEntry

SpecScoring == InitScoring /\ [][NextScoring]_vars

\* ------------------------------------------------------------------------
\* The rules file (src/core/rules.py, src/core/reinforcement.py)
\* ------------------------------------------------------------------------
\* calls made on the rules file in one run
MaxFileCalls == 2

\* sorted(xs) of a list of strings
RECURSIVE sorted_strings(_)
sorted_strings(xs) ==
  IF xs = <<>> THEN <<>>
  ELSE LET rest == sorted_strings(Tail(xs))
           lower == SelectSeq(rest, LAMBDA y : str_less(y, Head(xs)))
           upper == SelectSeq(rest, LAMBDA y : ~str_less(y, Head(xs)))
       IN  lower \o <<Head(xs)>> \o upper

\* "|".join(parts)
RECURSIVE join_bar(_)
join_bar(parts) ==
  IF parts = <<>> THEN <<>>
  ELSE IF Len(parts) = 1 THEN parts[1]
  ELSE parts[1] \o <<"|">> \o join_bar(Tail(parts))

\* [normalize_text(x) for x in xs]
RECURSIVE normalized_entries(_)
normalized_entries(xs) ==
  IF xs = <<>> THEN <<>>
  ELSE <<normalize_text(Head(xs))>> \o normalized_entries(Tail(xs))

\* lines 35-46; the twelve hex digits of the SHA-256 digest stand as the
\* digested string itself: two payloads get one rule id exactly when
\* their payload_str is the same
generate_rule_id(rule_payload) ==
  <<"rule_">> \o
    join_bar(<<normalize_identifier(rule_payload.vendor_key),
               normalize_identifier(rule_payload.account_number),
               normalize_identifier(rule_payload.farm_id),
               join_bar(sorted_strings(
                 normalized_entries(rule_payload.service_address_contains))),
               join_bar(sorted_strings(
                 normalized_entries(rule_payload.keywords_any)))>>)

\* the JSON object of the rules file: is "version" a string, is "rules" a
\* list, and the entries of that list
RulesPayload(version_is_str, rules_is_list, rules) ==
  [version_is_str |-> version_is_str, rules_is_list |-> rules_is_list,
   rules |-> rules]

DEFAULT_DYNAMIC_RULES == RulesPayload(TRUE, TRUE, <<>>)

\* DEFAULT_RULES of src/core/reinforcement.py
DEFAULT_RULES == RulesPayload(TRUE, TRUE, <<>>)

NoFile == [exists |-> FALSE]

\* a file on disk: parses is false for malformed JSON and for JSON that is
\* not an object
RulesFile(parses, payload) ==
  [exists |-> TRUE, parses |-> parses, payload |-> payload]

\* an entry of "rules"; a key the entry does not carry holds the empty
\* string or the empty text
StoredRule(type, tokens, farm_key, rule_id, vendor_key, account_number, invoice_number, service_address_contains, keywords_any, farm_id, priority, created_at) ==
  [type |-> type, tokens |-> tokens, farm_key |-> farm_key,
   rule_id |-> rule_id, vendor_key |-> vendor_key,
   account_number |-> account_number, invoice_number |-> invoice_number,
   service_address_contains |-> service_address_contains,
   keywords_any |-> keywords_any, farm_id |-> farm_id,
   priority |-> priority, created_at |-> created_at]

\* read_json raises LedgerIOError on a file that is there and is not a
\* JSON object
read_json_raises(file) == file.exists /\ ~file.parses

\* read_json(path, default) where it does not raise
read_json(file, default) == IF file.exists THEN file.payload ELSE default

\* atomic_rewrite_json: the file is replaced, or (OSError) left as it was
atomic_rewrite_json(file, data, write_ok) ==
  IF write_ok THEN RulesFile(TRUE, data) ELSE file

load_dynamic_rules_of(payload) ==
  IF ~payload.version_is_str \/ ~payload.rules_is_list
  THEN DEFAULT_DYNAMIC_RULES
  ELSE payload

\* lines 49-56
load_dynamic_rules(file) ==
  load_dynamic_rules_of(read_json(file, DEFAULT_DYNAMIC_RULES))

\* what a call leaves: the file, whether it raised, and what it returned
CallOutcome(file, raised, created, rule_id) ==
  [file |-> file, raised |-> raised, created |-> created,
   rule_id |-> rule_id]

\* lines 59-63
ensure_dynamic_rules_file(file, write_ok) ==
  IF read_json_raises(file) \/ ~write_ok
  THEN CallOutcome(file, TRUE, FALSE, <<>>)
  ELSE CallOutcome(atomic_rewrite_json(file, load_dynamic_rules(file), TRUE),
                   FALSE, FALSE, <<>>)

\* lines 112-124; evidence is copied and never read again
rule_record(new_rule, new_rule_id, now) ==
  StoredRule("", <<>>, "", new_rule_id, new_rule.vendor_key,
             new_rule.account_number, new_rule.invoice_number,
             new_rule.service_address_contains, new_rule.keywords_any,
             new_rule.farm_id, new_rule.priority,
             IF new_rule.created_at # <<>> THEN new_rule.created_at ELSE now)

\* lines 106-128, on the payload ensure_dynamic_rules_file returned and
\* the file it left
upsert_into(ensured, payload, new_rule, new_rule_id, write_ok, now) ==
  IF \E i \in 1..Len(payload.rules) : payload.rules[i].rule_id = new_rule_id
  THEN CallOutcome(ensured, FALSE, FALSE, new_rule_id)
  ELSE IF ~write_ok THEN CallOutcome(ensured, TRUE, FALSE, <<>>)
  ELSE CallOutcome(
         atomic_rewrite_json(ensured,
           RulesPayload(TRUE, TRUE,
             Append(payload.rules, rule_record(new_rule, new_rule_id, now))),
           TRUE),
         FALSE, TRUE, new_rule_id)

\* lines 96-128
upsert_dynamic_rule(file, new_rule, ensure_ok, write_ok, now) ==
  IF read_json_raises(file) \/ ~ensure_ok
  THEN CallOutcome(file, TRUE, FALSE, <<>>)
  ELSE upsert_into(ensure_dynamic_rules_file(file, TRUE).file,
                   load_dynamic_rules(file), new_rule,
                   generate_rule_id(new_rule), write_ok, now)

\* src/core/reinforcement.py lines 30-36
\* the comparison on the tokens in the order they were given
_rule_equal_in_order(r, farm_key, tokens) ==
  /\ r.type = BILL_TO_CONTAINS_ALL
  /\ r.farm_key = farm_key
  /\ r.tokens = tokens

_rule_equal(r, farm_key, tokens) ==
  /\ r.type = BILL_TO_CONTAINS_ALL
  /\ r.farm_key = farm_key
  /\ sorted_strings(r.tokens) = sorted_strings(tokens)

\* lines 52-68 on the payload read
append_to_payload(file, payload, rules, farm_key, tokens, write_ok) ==
  IF \E i \in 1..Len(rules) : _rule_equal(rules[i], farm_key, tokens)
  THEN CallOutcome(file, FALSE, FALSE, <<>>)
  ELSE IF ~write_ok THEN CallOutcome(file, FALSE, FALSE, <<>>)
  ELSE CallOutcome(
         atomic_rewrite_json(file,
           RulesPayload(payload.version_is_str, TRUE,
             Append(rules,
               StoredRule(BILL_TO_CONTAINS_ALL, tokens, farm_key, <<>>, <<>>,
                          <<>>, <<>>, <<>>, <<>>, <<>>, 0, <<>>))),
           TRUE),
         FALSE, TRUE, <<>>)

\* src/core/reinforcement.py lines 39-68; created is the boolean returned
append_bill_to_contains_all_rule(file, farm_key, tokens, write_ok) ==
  IF tokens = <<>> \/ farm_key = "" THEN CallOutcome(file, FALSE, FALSE, <<>>)
  ELSE IF read_json_raises(file) THEN CallOutcome(file, TRUE, FALSE, <<>>)
  ELSE append_to_payload(
         file, read_json(file, DEFAULT_RULES),
         IF read_json(file, DEFAULT_RULES).rules_is_list
         THEN read_json(file, DEFAULT_RULES).rules ELSE <<>>,
         farm_key, tokens, write_ok)

\* the payloads review_manual.py and a caller of upsert_dynamic_rule pass
RulePayload(vendor_key, account_number, invoice_number, service_address_contains, keywords_any, farm_id, priority, created_at) ==
  [vendor_key |-> vendor_key, account_number |-> account_number,
   invoice_number |-> invoice_number,
   service_address_contains |-> service_address_contains,
   keywords_any |-> keywords_any, farm_id |-> farm_id,
   priority |-> priority, created_at |-> created_at]

RulePayloads ==
  {RulePayload(v, <<"0", "1">>, <<>>, svc, <<>>, <<"a">>, p, c) :
     v \in {<<"p", "g">>, <<"P", "G">>},
     svc \in {<<<<"a", "b">>>>, <<<<"a", "b">>, <<"a", "b">>>>,
              <<<<"g", "a">>, <<"a", "b">>>>, <<<<"a", "b">>, <<"g", "a">>>>},
     p \in {50, 100},
     c \in {<<>>, <<"t", "1">>}}

\* datetime.now(UTC).isoformat()
Clock == {<<"t", "2">>}

\* max_chars of extract_bill_to_tokens
BillToMaxChars == 400

\* [a-z0-9] of the re module
IsLowerAlnum(c) ==
  c \in {"a", "b", "f", "g", "m", "p", "r", "0", "1", "2"}

\* a match of [a-z0-9]+ that has ended: a word if it has 3 characters
word_of(match) == IF Len(match) >= 3 THEN <<match>> ELSE <<>>

\* re.findall(r"[a-z0-9]{3,}", head), match being the match under way
RECURSIVE findall_words(_, _)
findall_words(head, match) ==
  IF head = <<>> THEN word_of(match)
  ELSE IF IsLowerAlnum(Head(head))
  THEN findall_words(Tail(head), Append(match, Head(head)))
  ELSE word_of(match) \o findall_words(Tail(head), <<>>)

\* lines 21-26: the words in their order, each once
RECURSIVE deduped(_, _)
deduped(words, tokens) ==
  IF words = <<>> THEN tokens
  ELSE deduped(Tail(words),
               IF \E i \in 1..Len(tokens) : tokens[i] = Head(words)
               THEN tokens ELSE Append(tokens, Head(words)))

\* src/core/reinforcement.py lines 15-27
extract_bill_to_tokens(raw_text) ==
  deduped(findall_words(str_lower(str_prefix(raw_text, BillToMaxChars)),
                        <<>>),
          <<>>)

\* the start of the raw text of the documents overridden
BillToTexts ==
  {<<>>, <<"A", "#", "1">>,
   <<"B", "b", "b", " ", "p", "a", "g">>,
   <<"p", "a", "g", ".", "b", "b", "b">>,
   <<"b", "b", "b", " ", "B", "B", "B", " ", "a", "b">>}

\* tokens of extract_bill_to_tokens and the farm picked in the review
BillToInputs ==
  {<<farm_key, extract_bill_to_tokens(raw_text)>> :
     farm_key \in {"farm_a", "farm_b"}, raw_text \in BillToTexts}

\* a rule written into the file by hand
HandRule ==
  StoredRule("", <<>>, "", <<"m", "1">>, <<"p", "g">>, <<"0", "1">>, <<>>,
             <<>>, <<>>, <<"b">>, 200, <<"t", "0">>)

\* the files a run starts from: none, an unreadable one, an empty object,
\* and objects with a list of rules under a version that is or is not a
\* string
InitialFiles ==
  {NoFile,
   RulesFile(FALSE, RulesPayload(FALSE, FALSE, <<>>)),
   RulesFile(TRUE, RulesPayload(FALSE, FALSE, <<>>)),
   RulesFile(TRUE, RulesPayload(TRUE, TRUE, <<>>)),
   RulesFile(TRUE, RulesPayload(TRUE, TRUE, <<HandRule>>)),
   RulesFile(TRUE, RulesPayload(FALSE, TRUE, <<HandRule>>))}

NoCall ==
  [calls |-> 0, op |-> "none", raised |-> FALSE, created |-> FALSE,
   rule_id |-> <<>>, before |-> NoFile, new_rule |-> <<>>, earlier |-> {},
   upserted |-> {}]

\* the bookkeeping of a call: what it was given, what it found and what
\* it answered; upserted keeps the payloads of the upserts that returned,
\* earlier those of the upserts that returned before this call
RfCalled(op, outcome, new_rule) ==
  [calls |-> rf_ret.calls + 1, op |-> op, raised |-> outcome.raised,
   created |-> outcome.created, rule_id |-> outcome.rule_id,
   before |-> rules_file, new_rule |-> new_rule,
   earlier |-> rf_ret.upserted,
   upserted |->
     IF op = "upsert_dynamic_rule" /\ ~outcome.raised
     THEN rf_ret.upserted
            \cup {[new_rule |-> new_rule, rule_id |-> outcome.rule_id]}
     ELSE rf_ret.upserted]

RfFinish(op, outcome, new_rule) ==
  /\ rules_file' = outcome.file
  /\ rf_ret' = RfCalled(op, outcome, new_rule)
  /\ UNCHANGED <<db_vars, next_uuid, calls, pc, loc, run, env, legacy_vars,
                 cl, fs, wr>>

RfUpsertDynamicRule ==
  /\ rf_ret.calls < MaxFileCalls
  /\ \E new_rule \in RulePayloads, ensure_ok, write_ok \in BOOLEAN,
        now \in Clock :
       RfFinish("upsert_dynamic_rule",
                upsert_dynamic_rule(rules_file, new_rule, ensure_ok,
                                    write_ok, now),
                new_rule)

RfEnsureDynamicRulesFile ==
  /\ rf_ret.calls < MaxFileCalls
  /\ \E write_ok \in BOOLEAN :
       RfFinish("ensure_dynamic_rules_file",
                ensure_dynamic_rules_file(rules_file, write_ok), <<>>)

RfAppendBillToContainsAllRule ==
  /\ rf_ret.calls < MaxFileCalls
  /\ \E input \in BillToInputs, write_ok \in BOOLEAN :
       RfFinish("append_bill_to_contains_all_rule",
                append_bill_to_contains_all_rule(rules_file, input[1],
                                                 input[2], write_ok),
                input)

InitRulesFile ==
  /\ InitCommon
  /\ env = [w \in Workers |-> FreeEnv]
  /\ cl = [pc |-> "idle"]
  /\ rules_file \in InitialFiles
  /\ rf_ret = NoCall

NextRulesFile ==
  RfUpsertDynamicRule \/ RfEnsureDynamicRulesFile
    \/ RfAppendBillToContainsAllRule

SpecRulesFile == InitRulesFile /\ [][NextRulesFile]_vars

\* ------------------------------------------------------------------------
\* Account collisions (src/core/rules.py, src/rules.py)
\* ------------------------------------------------------------------------
\* a farm of the farm configuration as the scan reads it
ConfigFarm(id, vendors) == [id |-> id, vendors |-> vendors]

\* a vendor entry of a farm: its key, its "identifiers" and its
\* "account_numbers"; meter_numbers, policy_numbers, loan_numbers,
\* order_numbers and customer_numbers are read as account_numbers is
ConfigVendor(key, identifiers, account_numbers) ==
  [key |-> key, identifiers |-> identifiers,
   account_numbers |-> account_numbers]

\* the fields of a dynamic rule and of a transaction row the scans read
Mapping(duplicate_detected, vendor_key, account_number, farm_id) ==
  [duplicate_detected |-> duplicate_detected, vendor_key |-> vendor_key,
   account_number |-> account_number, farm_id |-> farm_id]

\* a vendor entry that lists the account
vendor_lists_account(vendor_cfg, normalized_vendor, normalized_account, values) ==
  /\ normalize_identifier(vendor_cfg.key) = normalized_vendor
  /\ \E k \in 1..Len(values) :
       normalize_identifier(values[k]) = normalized_account

_scan_farms_config_mappings(normalized_vendor, normalized_account, farms) ==
  {str_strip(farms[i].id) :
     i \in {n \in 1..Len(farms) :
              /\ str_strip(farms[n].id) # <<>>
              /\ \E j \in 1..Len(farms[n].vendors) :
                   vendor_lists_account(
                     farms[n].vendors[j], normalized_vendor,
                     normalized_account,
                     farms[n].vendors[j].identifiers
                       \o farms[n].vendors[j].account_numbers)}}

_scan_dynamic_rule_mappings(normalized_vendor, normalized_account, rules) ==
  {str_strip(rules[i].farm_id) :
     i \in {n \in 1..Len(rules) :
              /\ normalize_identifier(rules[n].vendor_key) = normalized_vendor
              /\ normalize_identifier(rules[n].account_number)
                   = normalized_account
              /\ str_strip(rules[n].farm_id) # <<>>}}

\* the scan that reads the rows flagged duplicate_detected as well
_scan_transaction_mappings_with_duplicates(normalized_vendor, normalized_account, transactions_rows) ==
  _scan_dynamic_rule_mappings(normalized_vendor, normalized_account,
                              transactions_rows)

_scan_transaction_mappings(normalized_vendor, normalized_account, transactions_rows) ==
  {str_strip(transactions_rows[i].farm_id) :
     i \in {n \in 1..Len(transactions_rows) :
              /\ ~transactions_rows[n].duplicate_detected
              /\ normalize_identifier(transactions_rows[n].vendor_key)
                   = normalized_vendor
              /\ normalize_identifier(transactions_rows[n].account_number)
                   = normalized_account
              /\ str_strip(transactions_rows[n].farm_id) # <<>>}}

\* lines 264-281 once the two keys are normalized
collision_of(normalized_vendor, normalized_account, farms, rules, transactions_rows) ==
  IF normalized_vendor = <<>> \/ normalized_account = <<>> THEN FALSE
  ELSE Cardinality(
         _scan_farms_config_mappings(normalized_vendor, normalized_account,
                                     farms)
           \cup _scan_dynamic_rule_mappings(normalized_vendor,
                                            normalized_account, rules)
           \cup _scan_transaction_mappings(normalized_vendor,
                                           normalized_account,
                                           transactions_rows)) > 1

check_account_collision(vendor_key, account_number, farms, rules, transactions_rows) ==
  collision_of(normalize_identifier(vendor_key),
               normalize_identifier(account_number), farms, rules,
               transactions_rows)

\* ------------------------------------------------------------------------
\* Calls of the pure functions of the pipeline on their own
\* ------------------------------------------------------------------------
\* the totals the model output may carry as strings
TotalTexts ==
  {<<>>, <<" ">>, <<"$">>, <<"(", ")">>, <<"-", "5">>, <<"1", ".", "2", ".", "3">>,
   <<"0", ".", "0", "0", "4">>, <<"0", ".", "0", "0", "5">>,
   <<"$", "1", ",", "2", "3", "4", ".", "5", "6">>,
   <<"(", "5", "0", ".", "0", "0", ")">>, <<" ", "7", " ">>,
   <<"-", "-", "5">>, <<"1", " ", "2">>}

KeyInputs ==
  {[vendor_key |-> v, parsed_invoice |-> p] :
     v \in {<<>>, <<"p", "g">>},
     p \in {NoPayload}
             \cup {Payload(<<"P", "G">>, inv, date, total, addr, acct) :
                     inv \in {<<>>, <<"A", "-", "1">>},
                     date \in {<<>>, <<"2025-01-09">>},
                     total \in {NoAmount, Amount(0), Amount(10500)},
                     addr \in {<<>>, <<"1", " ", " ", "A", "b", ".">>},
                     acct \in {<<>>, <<"0", "-", "1">>}}}

ValidatorInputs ==
  {NoPayload}
    \cup {Payload(vendor, inv, date, total, <<>>, <<>>) :
            vendor \in {<<>>, <<" ">>, <<"P", "G">>},
            inv \in {<<>>, <<"A", "-", "1">>},
            date \in {<<>>, <<"2025-01-09">>, <<"01/09/2025">>,
                      <<"yesterday">>},
            total \in {NoAmount, InfAmount, Amount(10500), Amount(4)}
                        \cup {StrAmount(t) : t \in TotalTexts}}

FingerprintChars == {"A", "a", "#", ".", "_", " ", "1"}

FingerprintTexts ==
  {<<>>}
    \cup {<<c>> : c \in FingerprintChars}
    \cup {<<c, d>> : c, d \in FingerprintChars}
    \cup {<<"A", "#", "1">>, <<"a", " ", "#", " ", "1">>,
          <<"A", " ", " ", "1">>, <<"a", ".", "#", "1">>,
          <<"A", "_", "1">>, <<"a", "1">>}

\* the arguments of check_account_collision: vendor keys and accounts in
\* several spellings, one of each that normalizes to nothing, farm ids
\* with and without a trailing blank
CollisionFarms ==
  {<<>>,
   <<ConfigFarm(<<"a">>, <<ConfigVendor(<<"p", "g">>, <<>>,
                                        <<<<"0", "1">>>>)>>)>>,
   <<ConfigFarm(<<"a">>, <<ConfigVendor(<<"p", "g">>, <<<<"0", "-", "1">>>>,
                                        <<>>)>>),
     ConfigFarm(<<"b">>, <<ConfigVendor(<<"P", "G">>, <<>>,
                                        <<<<"0", "2">>, <<"0", "1">>>>)>>)>>,
   <<ConfigFarm(<<" ">>, <<ConfigVendor(<<"p", "g">>, <<>>,
                                        <<<<"0", "1">>>>)>>),
     ConfigFarm(<<"b">>, <<ConfigVendor(<<"b", "g">>, <<>>,
                                        <<<<"0", "1">>>>)>>)>>}

CollisionRules ==
  {<<>>,
   <<Mapping(FALSE, <<"p", "g">>, <<"0", "1">>, <<"b">>)>>,
   <<Mapping(FALSE, <<"p", "g">>, <<"0", "2">>, <<"b">>),
     Mapping(FALSE, <<>>, <<>>, <<>>)>>}

CollisionRows ==
  {<<>>,
   <<Mapping(FALSE, <<"p", "g">>, <<"0", "-", "1">>, <<"a">>)>>,
   <<Mapping(TRUE, <<"p", "g">>, <<"0", "1">>, <<"b">>)>>,
   <<Mapping(FALSE, <<"p", "g">>, <<"0", "1">>, <<"a">>),
     Mapping(FALSE, <<"P", "G">>, <<"0", "1">>, <<"b">>)>>,
   <<Mapping(FALSE, <<"p", "g">>, <<"0", "1">>, <<"a", " ">>),
     Mapping(TRUE, <<"p", "g">>, <<"0", "1">>, <<"b">>)>>,
   <<Mapping(FALSE, <<"p", "g">>, <<"0", "1">>, <<>>),
     Mapping(FALSE, <<"p", "g">>, <<"0", "1">>, <<"a">>)>>}

CollisionStart(vendor_key, account_number, farms, rules, transactions_rows) ==
  [pc |-> "called", fn |-> "check_account_collision",
   vendor_key |-> vendor_key, account_number |-> account_number,
   farms_config |-> farms, dynamic_rules_payload |-> rules,
   transactions_rows |-> transactions_rows, collision |-> FALSE]

\* a call that has its arguments and has not run
FnStart(fn, vendor_key, payload, text, other_text) ==
  [pc |-> "called", fn |-> fn, vendor_key |-> vendor_key,
   payload |-> payload, text |-> text, other_text |-> other_text,
   invoice_key |-> NoKey,
   answer |-> [raised |-> "none", valid |-> FALSE, reason |-> ""],
   fingerprint |-> <<>>, other_fingerprint |-> <<>>]

FnReturn(next_cl) ==
  /\ cl' = next_cl
  /\ UNCHANGED <<db_vars, next_uuid, calls, pc, loc, run, env, legacy_vars,
                 rules_file, rf_ret, fs, wr>>

FnComputeInvoiceKey ==
  /\ cl.pc = "called" /\ cl.fn = "compute_invoice_key"
  /\ FnReturn([cl EXCEPT !.pc = "returned",
                         !.invoice_key =
                           compute_invoice_key(cl.vendor_key, cl.payload)])

FnValidateInvoicePayload ==
  /\ cl.pc = "called" /\ cl.fn = "validate_invoice_payload"
  /\ FnReturn([cl EXCEPT !.pc = "returned",
                         !.answer = validate_invoice_payload(cl.payload)])

\* the function on two texts, one call after the other
FnComputeContentFingerprint ==
  /\ cl.pc = "called" /\ cl.fn = "compute_content_fingerprint"
  /\ FnReturn([cl EXCEPT !.pc = "returned",
                         !.fingerprint = compute_content_fingerprint(cl.text),
                         !.other_fingerprint =
                           compute_content_fingerprint(cl.other_text)])

FnCheckAccountCollision ==
  /\ cl.pc = "called" /\ cl.fn = "check_account_collision"
  /\ FnReturn([cl EXCEPT !.pc = "returned",
                         !.collision =
                           check_account_collision(
                             cl.vendor_key, cl.account_number,
                             cl.farms_config, cl.dynamic_rules_payload,
                             cl.transactions_rows)])

InitPure ==
  /\ InitCommon
  /\ env = [w \in Workers |-> FreeEnv]
  /\ rules_file = [exists |-> FALSE]
  /\ rf_ret = <<>>
  /\ \/ cl \in {FnStart("compute_invoice_key", i.vendor_key,
                         i.parsed_invoice, <<>>, <<>>) : i \in KeyInputs}
     \/ cl \in {FnStart("validate_invoice_payload", <<>>, p, <<>>, <<>>) :
                  p \in ValidatorInputs}
     \/ cl \in {FnStart("compute_content_fingerprint", <<>>, NoPayload, t,
                         u) : t, u \in FingerprintTexts}
     \/ \E vendor_key \in {<<"p", "g">>, <<"P", "-", "G">>, <<"-">>},
           account_number \in {<<"0", "1">>, <<"0", "/", "1">>, <<>>},
           farms \in CollisionFarms, rules \in CollisionRules,
           transactions_rows \in CollisionRows :
          cl = CollisionStart(vendor_key, account_number, farms, rules,
                              transactions_rows)

NextPure ==
  FnComputeInvoiceKey \/ FnValidateInvoicePayload
    \/ FnComputeContentFingerprint \/ FnCheckAccountCollision

SpecPure == InitPure /\ [][NextPure]_vars

\* ------------------------------------------------------------------------
\* Rewrites of a JSON or JSONL file, statement by statement
\* (src/core/ledger.py, src/ledger.py, src/main.py)
\* ------------------------------------------------------------------------
\* the file at the path rewritten and the file at its sibling temp path
Files(path, tmp) == [path |-> path, tmp |-> tmp]

\* what json.dump(data, handle, indent=2) and the newline write, piece by
\* piece
JsonLines(data) == <<"{", data, "}">>

\* a line of the transaction ledger
LedgerLine(doc_id, body) == [doc_id |-> doc_id, body |-> body]
NoLine == LedgerLine("", "")

\* the locals of a rewrite: bad_line is the position of the value json
\* cannot serialize, 0 when there is none
Rewrite(op, first_pc, before, data, updated_record, bad_line) ==
  [pc |-> first_pc, op |-> op, before |-> before, data |-> data,
   updated_record |-> updated_record, bad_line |-> bad_line, written |-> 0,
   raised |-> "none"]

WrStep(next_fs, next_wr) ==
  /\ fs' = next_fs
  /\ wr' = next_wr
  /\ UNCHANGED <<db_vars, next_uuid, calls, pc, loc, run, env, legacy_vars,
                 cl, rules_file, rf_ret>>

IsAtomicRewrite ==
  wr.pc # "idle" /\ wr.op \in {"atomic_rewrite_json", "atomic_rewrite_jsonl"}

\* tmp_path.open("w"): the temp file is created or emptied
ArOpenTmp ==
  /\ IsAtomicRewrite /\ wr.pc = "open_tmp"
  /\ \E ok \in BOOLEAN :
       IF ok
       THEN WrStep([fs EXCEPT !.tmp = Content(<<>>)],
                   [wr EXCEPT !.pc = "write_tmp"])
       ELSE WrStep(fs, [wr EXCEPT !.pc = "except"])

\* the serialization and the write of the next piece; a value json cannot
\* serialize raises TypeError, a failed write OSError
ArWriteTmp ==
  /\ IsAtomicRewrite /\ wr.pc = "write_tmp"
  /\ IF wr.written = Len(wr.data)
     THEN WrStep(fs, [wr EXCEPT !.pc = "read_back"])
     ELSE IF wr.bad_line = wr.written + 1
     THEN WrStep(fs, [wr EXCEPT !.pc = "raised", !.raised = "TypeError"])
     ELSE \E ok \in BOOLEAN :
            IF ok
            THEN WrStep([fs EXCEPT !.tmp =
                           Content(Append(fs.tmp.lines,
                                          wr.data[wr.written + 1]))],
                        [wr EXCEPT !.written = wr.written + 1])
            ELSE WrStep(fs, [wr EXCEPT !.pc = "except"])

\* the temp file is read back and parsed
ArReadBack ==
  /\ IsAtomicRewrite /\ wr.pc = "read_back"
  /\ \E ok \in BOOLEAN :
       WrStep(fs, [wr EXCEPT !.pc = IF ok THEN "replace" ELSE "except"])

\* tmp_path.replace(file_path)
ArReplace ==
  /\ IsAtomicRewrite /\ wr.pc = "replace"
  /\ \E ok \in BOOLEAN :
       IF ok
       THEN WrStep(Files(fs.tmp, NoContent), [wr EXCEPT !.pc = "returned"])
       ELSE WrStep(fs, [wr EXCEPT !.pc = "except"])

\* except (OSError, json.JSONDecodeError): _safe_remove(tmp_path) and
\* raise LedgerIOError
ArExcept ==
  /\ IsAtomicRewrite /\ wr.pc = "except"
  /\ WrStep([fs EXCEPT !.tmp = NoContent],
            [wr EXCEPT !.pc = "raised", !.raised = "LedgerIOError"])

\* the records update_jsonl_record writes back
RECURSIVE updated_records(_, _)
updated_records(lines, updated_record) ==
  IF lines = <<>> THEN <<>>
  ELSE <<IF Head(lines).doc_id = updated_record.doc_id
         THEN updated_record ELSE Head(lines)>>
         \o updated_records(Tail(lines), updated_record)

\* src/main.py lines 205-213: the file is read into records
UjrRead ==
  /\ wr.pc = "read" /\ wr.op = "update_jsonl_record"
  /\ WrStep(fs, [wr EXCEPT !.pc = "open_w",
                           !.data = updated_records(fs.path.lines,
                                                    wr.updated_record)])

\* line 214: file_path.open("w") empties the file at the path
UjrOpen ==
  /\ wr.pc = "open_w" /\ wr.op = "update_jsonl_record"
  /\ \E ok \in BOOLEAN :
       IF ok
       THEN WrStep([fs EXCEPT !.path = Content(<<>>)],
                   [wr EXCEPT !.pc = "write"])
       ELSE WrStep(fs, [wr EXCEPT !.pc = "raised", !.raised = "OSError"])

\* lines 215-216: the records are written to the path one by one
UjrWrite ==
  /\ wr.pc = "write" /\ wr.op = "update_jsonl_record"
  /\ IF wr.written = Len(wr.data)
     THEN WrStep(fs, [wr EXCEPT !.pc = "returned"])
     ELSE \E ok \in BOOLEAN :
            IF ok
            THEN WrStep([fs EXCEPT !.path =
                           Content(Append(fs.path.lines,
                                          wr.data[wr.written + 1]))],
                        [wr EXCEPT !.written = wr.written + 1])
            ELSE WrStep(fs, [wr EXCEPT !.pc = "raised",
                                       !.raised = "OSError"])

\* the process dies between two statements
WrCrash ==
  /\ wr.pc \in {"open_tmp", "write_tmp", "read_back", "replace", "except",
                "read", "open_w", "write"}
  /\ WrStep(fs, [wr EXCEPT !.pc = "crashed"])

\* the ledgers and the records the rewrites start from
LedgerA1 == LedgerLine("a.pdf", "farm_a")
LedgerA2 == LedgerLine("a.pdf", "farm_b")
LedgerB1 == LedgerLine("b.pdf", "farm_a")
LedgerB2 == LedgerLine("b.pdf", "farm_b")

InitRewrite ==
  /\ InitStore
  /\ \/ \E before \in {NoContent, Content(JsonLines("rules_1"))},
           tmp \in {NoContent, Content(<<"{">>)}, bad_line \in {0, 2} :
          /\ fs = Files(before, tmp)
          /\ wr = Rewrite("atomic_rewrite_json", "open_tmp", before,
                          JsonLines("rules_2"), NoLine, bad_line)
     \/ \E before \in {NoContent, Content(<<LedgerA1, LedgerB1>>)},
           tmp \in {NoContent, Content(<<LedgerA1>>)},
           data \in {<<LedgerA2, LedgerB1>>, <<LedgerB1>>},
           bad_line \in {0, 1, 2} :
          /\ bad_line <= Len(data)
          /\ fs = Files(before, tmp)
          /\ wr = Rewrite("atomic_rewrite_jsonl", "open_tmp", before, data,
                          NoLine, bad_line)
     \/ \E lines \in {<<LedgerA1>>, <<LedgerA1, LedgerB1>>,
                      <<LedgerB1, LedgerA1>>},
           updated_record \in {LedgerA2, LedgerB2} :
          /\ fs = Files(Content(lines), NoContent)
          /\ wr = Rewrite("update_jsonl_record", "read", Content(lines),
                          <<>>, updated_record, 0)
  /\ env = [w \in Workers |-> FreeEnv]
  /\ cl = [pc |-> "idle"]
  /\ rules_file = [exists |-> FALSE]
  /\ rf_ret = <<>>

NextRewrite ==
  ArOpenTmp \/ ArWriteTmp \/ ArReadBack \/ ArReplace \/ ArExcept
    \/ UjrRead \/ UjrOpen \/ UjrWrite \/ WrCrash

SpecRewrite == InitRewrite /\ [][NextRewrite]_vars

\* ------------------------------------------------------------------------
\* Manual override of the web interface (src/core/api.py,
\* src/core/queries.py) beside the pipeline
\* ------------------------------------------------------------------------
MaxOverrides == 1

\* the row update_transaction_farm leaves: farm_key, status and, of the
\* columns the rows of the model do not carry, farm_name and updated_at
overridden_row(row, farm_key) ==
  [row EXCEPT !.farm_key = farm_key, !.status = "manual"]

\* src/core/queries.py lines 142-157: UPDATE transactions ... WHERE id = ?
update_transaction_farm(txs, tx_id, farm_key) ==
  {IF t.doc_id = tx_id THEN overridden_row(t, farm_key) ELSE t : t \in txs}

\* what the handler answered and what it was asked; raw_text is the local
\* of line 158, assigned under the flag only
Override(overrides, tx_id, farm_key, create_reinforcement_rule, raw_text, response) ==
  [pc |-> "returned", op |-> "manual_review_override",
   overrides |-> overrides, tx_id |-> tx_id, farm_key |-> farm_key,
   create_reinforcement_rule |-> create_reinforcement_rule,
   raw_text |-> raw_text, response |-> response]

overrides_done == IF wr.pc = "idle" THEN 0 ELSE wr.overrides

\* raw texts of the documents overridden: one with no token, one with two
OverrideTexts == {TextA, <<"B", "b", "b", " ", "p", "a", "g">>}

\* POST /manual-review/{tx_id}, src/core/api.py lines 144-162, taken
\* between two runs of the pipeline; a row is named by its doc_id,
\* raw_text is the text of its document
ManualReviewOverride ==
  /\ overrides_done < MaxOverrides
  /\ pc[1] \in StartPoints
  /\ \E tx_id \in {t.doc_id : t \in transactions} \cup {NullDocId},
        farm_key \in FarmIds, create_reinforcement_rule, write_ok \in BOOLEAN,
        raw_text \in OverrideTexts :
       IF \A t \in transactions : t.doc_id # tx_id
       THEN /\ wr' = Override(overrides_done + 1, tx_id, farm_key, FALSE,
                               <<>>, "404")
            /\ UNCHANGED <<transactions, rules_file>>
       ELSE /\ transactions' =
                 update_transaction_farm(transactions, tx_id, farm_key)
            /\ wr' = Override(overrides_done + 1, tx_id, farm_key,
                               create_reinforcement_rule,
                               IF create_reinforcement_rule THEN raw_text
                               ELSE <<>>,
                               "303")
            /\ rules_file' =
                 IF create_reinforcement_rule
                      /\ extract_bill_to_tokens(raw_text) # <<>>
                 THEN append_bill_to_contains_all_rule(
                        rules_file, farm_key,
                        extract_bill_to_tokens(raw_text), write_ok).file
                 ELSE rules_file
  /\ UNCHANGED <<documents, tagging_events, manual_review_queue, next_uuid,
                 calls, pc, loc, run, env, legacy_vars, cl, rf_ret, fs>>

NextOverride == Step(1) \/ ManualReviewOverride

SpecOverride == Init /\ [][NextOverride]_vars

\* ------------------------------------------------------------------------
\* Manual review on the command line (src/review_manual.py)
\* ------------------------------------------------------------------------
\* re.split(r"[,;]", normalized): the segments between the separators,
\* segment being the one under way
RECURSIVE split_segments(_, _)
split_segments(normalized, segment) ==
  IF normalized = <<>> THEN <<segment>>
  ELSE IF Head(normalized) \in {",", ";"}
  THEN <<segment>> \o split_segments(Tail(normalized), <<>>)
  ELSE split_segments(Tail(normalized), Append(segment, Head(normalized)))

\* lines 436-440 for one token
with_service_token(out, cleaned) ==
  IF Len(cleaned) < 4 \/ \E i \in 1..Len(out) : out[i] = cleaned
  THEN out
  ELSE Append(out, cleaned)

\* lines 433-440: the segments stripped, the empty ones dropped
RECURSIVE service_tokens(_, _)
service_tokens(segments, out) ==
  IF segments = <<>> THEN out
  ELSE service_tokens(
         Tail(segments),
         IF str_strip(Head(segments)) = <<>> THEN out
         ELSE with_service_token(
                out, str_strip(collapse_whitespace(str_strip(Head(segments))))))

\* lines 429-441; None and "" are the empty text
extract_service_disambiguators(service_address) ==
  IF service_address = <<>> THEN <<>>
  ELSE str_prefix(
         service_tokens(split_segments(normalize_text(service_address), <<>>),
                        <<>>),
         3)

\* a match of [a-z0-9]+ that has ended: a token if it has 4 characters
token_of(match) == IF Len(match) >= 4 THEN <<match>> ELSE <<>>

\* re.findall(r"[a-z0-9]{4,}", text), match being the match under way
RECURSIVE findall_tokens(_, _)
findall_tokens(text, match) ==
  IF text = <<>> THEN token_of(match)
  ELSE IF IsLowerAlnum(Head(text))
  THEN findall_tokens(Tail(text), Append(match, Head(text)))
  ELSE token_of(match) \o findall_tokens(Tail(text), <<>>)

\* the tokens line 454 passes over
KeywordStopwords ==
  {<<"f", "a", "r", "m">>, <<"f", "a", "r", "m", "s">>,
   <<"e", "x", "p", "e", "n", "s", "e", "s">>, <<"r", "a", "n", "c", "h">>}

\* lines 453-457
RECURSIVE keywords_of(_, _, _)
keywords_of(farm_tokens, normalized_ocr, keywords) ==
  IF farm_tokens = <<>> THEN keywords
  ELSE keywords_of(
         Tail(farm_tokens), normalized_ocr,
         IF Head(farm_tokens) \notin KeywordStopwords
              /\ str_contains(Head(farm_tokens), normalized_ocr)
              /\ \A i \in 1..Len(keywords) : keywords[i] # Head(farm_tokens)
         THEN Append(keywords, Head(farm_tokens))
         ELSE keywords)

\* lines 444-458
extract_keyword_disambiguators(selected_farm_name, selected_farm_id, ocr_text) ==
  str_prefix(
    keywords_of(findall_tokens(normalize_text(selected_farm_name), <<>>)
                  \o findall_tokens(normalize_text(selected_farm_id), <<>>),
                normalize_text(ocr_text), <<>>),
    3)

\* base_payload of lines 356-368 with the two lists of a proposal; the
\* evidence is carried along and never read
Proposal(vendor_key, account_number, invoice_number, farm_id, created_at, service_address_contains, keywords_any) ==
  [vendor_key |-> vendor_key, account_number |-> account_number,
   invoice_number |-> invoice_number, farm_id |-> farm_id, priority |-> 100,
   created_at |-> created_at,
   service_address_contains |-> service_address_contains,
   keywords_any |-> keywords_any]

\* lines 370-380
proposals_of(base_payload, service_disambiguators, keyword_disambiguators) ==
  (IF service_disambiguators # <<>>
   THEN <<[base_payload EXCEPT
             !.service_address_contains = str_prefix(service_disambiguators, 2)]>>
   ELSE <<>>)
    \o (IF keyword_disambiguators # <<>>
        THEN <<[base_payload EXCEPT
                  !.keywords_any = str_prefix(keyword_disambiguators, 3)]>>
        ELSE <<>>)

\* lines 383-388
with_disambiguator(proposals) ==
  SelectSeq(proposals,
            LAMBDA p : p.service_address_contains # <<>> \/ p.keywords_any # <<>>)

\* lines 353-389 once the collision and the disambiguators are known
proposals_under(collision, base_payload, service_disambiguators, keyword_disambiguators) ==
  IF collision /\ service_disambiguators = <<>> /\ keyword_disambiguators = <<>>
  THEN <<>>
  ELSE str_prefix(
         IF collision
         THEN with_disambiguator(
                proposals_of(base_payload, service_disambiguators,
                             keyword_disambiguators))
         ELSE proposals_of(base_payload, service_disambiguators,
                           keyword_disambiguators),
         3)

\* a or b of two texts
text_or(a, b) == IF a # <<>> THEN a ELSE b

\* the synthesizer that falls back on the rule of vendor and account alone
\* when it finds nothing to tell the farms apart
propose_dynamic_rules_vendor_and_account(selected_farm_id, selected_farm_name, tx_meta, farms, dynamic_rules_payload, transactions_rows, ocr, now) ==
  IF text_or(tx_meta.vendor_key, ocr.vendor_key) = <<>>
       \/ text_or(tx_meta.account_number, ocr.account_number) = <<>>
  THEN <<>>
  ELSE IF extract_service_disambiguators(
            text_or(tx_meta.service_address, ocr.service_address)) = <<>>
          /\ extract_keyword_disambiguators(selected_farm_name,
                                            selected_farm_id, ocr.text) = <<>>
  THEN <<Proposal(text_or(tx_meta.vendor_key, ocr.vendor_key),
                  text_or(tx_meta.account_number, ocr.account_number),
                  tx_meta.invoice_number, selected_farm_id, now,
                  <<>>, <<>>)>>
  ELSE proposals_under(
         FALSE,
         Proposal(text_or(tx_meta.vendor_key, ocr.vendor_key),
                  text_or(tx_meta.account_number, ocr.account_number),
                  tx_meta.invoice_number, selected_farm_id, now,
                  <<>>, <<>>),
         extract_service_disambiguators(
           text_or(tx_meta.service_address, ocr.service_address)),
         extract_keyword_disambiguators(selected_farm_name, selected_farm_id,
                                        ocr.text))

\* lines 317-389; ocr is the cached text of the document with what
\* infer_vendor_key_from_text, extract_account_number and
\* extract_service_address_hint read in it
propose_dynamic_rules(selected_farm_id, selected_farm_name, tx_meta, farms, dynamic_rules_payload, transactions_rows, ocr, now) ==
  IF text_or(tx_meta.vendor_key, ocr.vendor_key) = <<>>
       \/ text_or(tx_meta.account_number, ocr.account_number) = <<>>
  THEN <<>>
  ELSE proposals_under(
         check_account_collision(
           text_or(tx_meta.vendor_key, ocr.vendor_key),
           text_or(tx_meta.account_number, ocr.account_number),
           farms, dynamic_rules_payload.rules, transactions_rows),
         Proposal(text_or(tx_meta.vendor_key, ocr.vendor_key),
                  text_or(tx_meta.account_number, ocr.account_number),
                  tx_meta.invoice_number, selected_farm_id, now,
                  <<>>, <<>>),
         extract_service_disambiguators(
           text_or(tx_meta.service_address, ocr.service_address)),
         extract_keyword_disambiguators(selected_farm_name, selected_farm_id,
                                        ocr.text))

\* lines 277-281: the index of the row, 0 for None
locate_transaction_for_queue_item(transactions_rows, doc_id) ==
  IF \A i \in 1..Len(transactions_rows) : transactions_rows[i].doc_id # doc_id
  THEN 0
  ELSE IF \E i \in 1..Len(transactions_rows) :
            /\ transactions_rows[i].doc_id = doc_id
            /\ ~transactions_rows[i].duplicate_detected
  THEN CHOOSE i \in 1..Len(transactions_rows) :
         /\ transactions_rows[i].doc_id = doc_id
         /\ ~transactions_rows[i].duplicate_detected
         /\ \A j \in 1..(i - 1) :
              transactions_rows[j].doc_id # doc_id
                \/ transactions_rows[j].duplicate_detected
  ELSE CHOOSE i \in 1..Len(transactions_rows) :
         /\ transactions_rows[i].doc_id = doc_id
         /\ \A j \in 1..(i - 1) : transactions_rows[j].doc_id # doc_id

\* lines 291-302: candidate_indices
candidate_indices(transactions_rows, content_fingerprint, doc_id) ==
  IF \E i \in 1..Len(transactions_rows) :
       /\ transactions_rows[i].content_fingerprint = content_fingerprint
       /\ transactions_rows[i].doc_id = doc_id
  THEN {i \in 1..Len(transactions_rows) :
          /\ transactions_rows[i].content_fingerprint = content_fingerprint
          /\ transactions_rows[i].doc_id = doc_id}
  ELSE {i \in 1..Len(transactions_rows) :
          transactions_rows[i].content_fingerprint = content_fingerprint}

\* lines 305-308: selected_index, 0 where line 297 returns None
selected_index(transactions_rows, indices) ==
  IF indices = {} THEN 0
  ELSE IF \E i \in indices : ~transactions_rows[i].duplicate_detected
  THEN first_index({i \in indices : ~transactions_rows[i].duplicate_detected})
  ELSE first_index(indices)

\* lines 309-313 on the row selected
assigned_rows(transactions_rows, index, selected_farm_id, selected_farm_name) ==
  IF index = 0 THEN transactions_rows
  ELSE [transactions_rows EXCEPT
          ![index] = [@ EXCEPT !.farm_id = selected_farm_id,
                               !.farm_name = selected_farm_name,
                               !.needs_manual_review = FALSE,
                               !.manual_override = TRUE]]

\* lines 284-314: the rows as the call leaves them
update_transaction_assignment(transactions_rows, content_fingerprint, doc_id, selected_farm_id, selected_farm_name) ==
  assigned_rows(
    transactions_rows,
    selected_index(transactions_rows,
                   candidate_indices(transactions_rows, content_fingerprint,
                                     doc_id)),
    selected_farm_id, selected_farm_name)

\* a farm of config/farms.json with its name
ReviewFarm(id, name, vendors) == [id |-> id, name |-> name, vendors |-> vendors]

\* a line of manual_review_queue.jsonl
QueueItem(doc_id, resolved, candidates) ==
  [doc_id |-> doc_id, resolved |-> resolved, candidates |-> candidates]

\* a line of transactions.jsonl, waiting for review
LedgerRow(doc_id, content_fingerprint, duplicate_detected, vendor_key, account_number, service_address, farm_id) ==
  [doc_id |-> doc_id, content_fingerprint |-> content_fingerprint,
   duplicate_detected |-> duplicate_detected, vendor_key |-> vendor_key,
   account_number |-> account_number, invoice_number |-> <<>>,
   service_address |-> service_address, farm_id |-> farm_id,
   farm_name |-> <<>>, needs_manual_review |-> TRUE,
   manual_override |-> FALSE]

\* lines 115-124: a line of manual_review_decisions.jsonl
Decision(doc_id, content_fingerprint, selected_farm_id) ==
  [doc_id |-> doc_id, content_fingerprint |-> content_fingerprint,
   selected_farm_id |-> selected_farm_id]

\* the three JSONL files of outputs/
ReviewFiles(queue, decisions, transactions_file) ==
  [queue |-> queue, decisions |-> decisions,
   transactions |-> transactions_file]

\* src/ledger.py lines 14-39 on a file whose lines parse
read_jsonl(content) == IF content.exists THEN content.lines ELSE <<>>

\* src/ledger.py lines 42-48
ledger_append_jsonl(content, record) == Content(Append(read_jsonl(content), record))

\* src/ledger.py lines 73-97: the file is replaced, or (LedgerIOError)
\* left as it was
atomic_rewrite_jsonl(content, records, write_ok) ==
  IF write_ok THEN Content(records) ELSE content

\* the call of propose_dynamic_rules of the item last reviewed: its
\* arguments, the disambiguators it extracted and what it returned
ProposeCall(called, doc_id, selected_farm_id, vendor_key, account_number, transactions_rows, service_disambiguators, keyword_disambiguators, proposals, accepted_rules) ==
  [called |-> called, doc_id |-> doc_id,
   selected_farm_id |-> selected_farm_id, vendor_key |-> vendor_key,
   account_number |-> account_number,
   transactions_rows |-> transactions_rows,
   service_disambiguators |-> service_disambiguators,
   keyword_disambiguators |-> keyword_disambiguators,
   proposals |-> proposals, accepted_rules |-> accepted_rules]

NoProposeCall ==
  ProposeCall(FALSE, <<>>, <<>>, <<>>, <<>>, <<>>, <<>>, <<>>, <<>>, <<>>)

\* main at its first statement
ReviewStart(dry_run, before, before_rules) ==
  [pc |-> "start", op |-> "review_manual", dry_run |-> dry_run,
   before |-> before, before_rules |-> before_rules,
   queue_rows |-> <<>>, transactions_rows |-> <<>>,
   dynamic_rules_payload |-> DEFAULT_DYNAMIC_RULES, index |-> 0,
   queue_writes_needed |-> FALSE, transaction_writes_needed |-> FALSE,
   exit_code |-> 0, last |-> NoProposeCall]

ReviewStep(next_fs, next_rules_file, next_wr) ==
  /\ fs' = next_fs
  /\ rules_file' = next_rules_file
  /\ wr' = next_wr
  /\ UNCHANGED <<db_vars, next_uuid, calls, pc, loc, run, env, legacy_vars,
                 cl, rf_ret>>

\* the process ends: sys.exit, return, or an exception nothing catches
exited(state, exit_code) ==
  [state EXCEPT !.pc = "exited", !.exit_code = exit_code]

\* lines 54-56 and 67: the next item of unresolved after position index
RECURSIVE next_unresolved(_, _)
next_unresolved(queue_rows, index) ==
  IF index >= Len(queue_rows) THEN Len(queue_rows) + 1
  ELSE IF ~queue_rows[index + 1].resolved THEN index + 1
  ELSE next_unresolved(queue_rows, index + 1)

\* continue, or the end of an iteration
continued(state) ==
  [state EXCEPT !.index = next_unresolved(state.queue_rows, state.index)]

\* lines 45-59
RvInit ==
  /\ wr.pc = "start" /\ wr.op = "review_manual"
  /\ \E write_ok \in BOOLEAN :
       IF ensure_dynamic_rules_file(rules_file, write_ok).raised
       THEN ReviewStep(fs, rules_file, exited(wr, 1))
       ELSE ReviewStep(
              fs, ensure_dynamic_rules_file(rules_file, write_ok).file,
              IF next_unresolved(read_jsonl(fs.queue), 0)
                   > Len(read_jsonl(fs.queue))
              THEN exited(wr, 0)
              ELSE [wr EXCEPT
                      !.pc = "loop",
                      !.queue_rows = read_jsonl(fs.queue),
                      !.transactions_rows = read_jsonl(fs.transactions),
                      !.dynamic_rules_payload = load_dynamic_rules(rules_file),
                      !.index = next_unresolved(read_jsonl(fs.queue), 0)])

\* lines 236-270: None for s, a candidate by its number, or a farm of the
\* configuration by its id
selections_of(item, farms) ==
  {[skipped |-> TRUE, farm_id |-> <<>>, farm_name |-> <<>>]}
    \cup {[skipped |-> FALSE, farm_id |-> str_strip(item.candidates[i].farm_id),
           farm_name |-> str_strip(text_or(item.candidates[i].farm_name,
                                           item.candidates[i].farm_id))] :
            i \in {n \in 1..Len(item.candidates) :
                     str_strip(item.candidates[n].farm_id) # <<>>}}
    \cup {[skipped |-> FALSE, farm_id |-> str_strip(farms[i].id),
           farm_name |-> str_strip(text_or(farms[i].name,
                                           str_strip(farms[i].id)))] :
            i \in {n \in 1..Len(farms) :
                     str_strip(farms[n].id) # <<>>}}

\* lines 140-145: the proposals answered y
RECURSIVE accepted_of(_, _)
accepted_of(proposals, answers) ==
  IF proposals = <<>> THEN <<>>
  ELSE (IF Head(answers) THEN <<Head(proposals)>> ELSE <<>>)
         \o accepted_of(Tail(proposals), Tail(answers))

\* lines 193-200: LedgerIOError of upsert_dynamic_rule is not caught
RECURSIVE upsert_accepted(_, _, _, _)
upsert_accepted(file, accepted_rules, write_ok, now) ==
  IF accepted_rules = <<>> THEN CallOutcome(file, FALSE, FALSE, <<>>)
  ELSE IF upsert_dynamic_rule(file, Head(accepted_rules), write_ok, write_ok,
                              now).raised
  THEN upsert_dynamic_rule(file, Head(accepted_rules), write_ok, write_ok, now)
  ELSE upsert_accepted(
         ensure_dynamic_rules_file(
           upsert_dynamic_rule(file, Head(accepted_rules), write_ok, write_ok,
                               now).file,
           TRUE).file,
         Tail(accepted_rules), write_ok, now)

\* line 170 on the rows of the queue
resolved_at(queue_rows, index) ==
  [queue_rows EXCEPT ![index] = [@ EXCEPT !.resolved = TRUE]]

\* lines 126-202 for an item whose transaction row was found
RvDecide(item, selection, tx_meta, ocr, proposals, accepted_rules, write_ok, now) ==
  IF wr.dry_run
  THEN ReviewStep(
         fs, rules_file,
         continued([wr EXCEPT
           !.last = ProposeCall(
              TRUE, item.doc_id, selection.farm_id,
              text_or(tx_meta.vendor_key, ocr.vendor_key),
              text_or(tx_meta.account_number, ocr.account_number),
              wr.transactions_rows,
              extract_service_disambiguators(
                text_or(tx_meta.service_address, ocr.service_address)),
              extract_keyword_disambiguators(selection.farm_name,
                                             selection.farm_id, ocr.text),
              proposals, accepted_rules)]))
  ELSE ReviewStep(
         [fs EXCEPT !.decisions =
            ledger_append_jsonl(@, Decision(item.doc_id, tx_meta.content_fingerprint,
                                     selection.farm_id))],
         upsert_accepted(rules_file, accepted_rules, write_ok, now).file,
         [(IF upsert_accepted(rules_file, accepted_rules, write_ok, now).raised
           THEN exited(wr, 1)
           ELSE continued(wr))
          EXCEPT
           !.queue_rows = resolved_at(@, wr.index),
           !.queue_writes_needed = TRUE,
           !.transactions_rows =
              update_transaction_assignment(
                @, tx_meta.content_fingerprint, item.doc_id,
                selection.farm_id, selection.farm_name),
           !.transaction_writes_needed =
              selected_index(
                wr.transactions_rows,
                candidate_indices(wr.transactions_rows,
                                  tx_meta.content_fingerprint,
                                  item.doc_id)) # 0,
           !.dynamic_rules_payload =
              load_dynamic_rules(
                upsert_accepted(rules_file, accepted_rules, write_ok,
                                now).file),
           !.last = ProposeCall(
              TRUE, item.doc_id, selection.farm_id,
              text_or(tx_meta.vendor_key, ocr.vendor_key),
              text_or(tx_meta.account_number, ocr.account_number),
              wr.transactions_rows,
              extract_service_disambiguators(
                text_or(tx_meta.service_address, ocr.service_address)),
              extract_keyword_disambiguators(selection.farm_name,
                                             selection.farm_id, ocr.text),
              proposals, accepted_rules)])

\* config/farms.json of the review: a farm whose id is a keyword and a
\* farm whose name and id give none
ReviewFarms ==
  <<ReviewFarm(<<"g", "a", "b", "b", "a">>,
               <<"G", "a", "b", "b", "a", " ", "f", "a", "r", "m">>, <<>>),
    ReviewFarm(<<"b", "2">>, <<"f", "a", "r", "m">>, <<>>)>>

\* what the cache of OCR texts holds for a document and what the
\* extractors of lines 400-481 read in it: nothing, or a vendor, an
\* account and the farm named, with or without a line of address
OcrReadings ==
  {[text |-> <<>>, vendor_key |-> <<>>, account_number |-> <<>>,
    service_address |-> <<>>],
   [text |-> <<"p", "g", " ", "g", "a", "b", "b", "a">>,
    vendor_key |-> <<"p", "g">>, account_number |-> <<"0", "0", "0", "1">>,
    service_address |-> <<>>],
   [text |-> <<"p", "g", " ", "1", "2", " ", "r", "d">>,
    vendor_key |-> <<"p", "g">>, account_number |-> <<"0", "0", "0", "1">>,
    service_address |-> <<"1", "2", " ", "R", "d", ",", " ", "a", "b">>]}

\* the answers to "Add this rule?"
ReviewAnswers == {<<FALSE, FALSE, FALSE>>, <<TRUE, FALSE, FALSE>>, <<TRUE, TRUE, TRUE>>}

\* lines 67-202: one iteration of the loop
RvItem ==
  /\ wr.pc = "loop" /\ wr.index <= Len(wr.queue_rows)
  /\ \E selection \in selections_of(wr.queue_rows[wr.index], ReviewFarms),
        ocr \in OcrReadings, answers \in ReviewAnswers,
        write_ok \in BOOLEAN, now \in Clock :
       IF selection.skipped
            \/ locate_transaction_for_queue_item(
                 wr.transactions_rows, wr.queue_rows[wr.index].doc_id) = 0
       THEN ReviewStep(fs, rules_file, continued(wr))
       ELSE IF wr.transactions_rows[
                 locate_transaction_for_queue_item(
                   wr.transactions_rows,
                   wr.queue_rows[wr.index].doc_id)].content_fingerprint = <<>>
       THEN ReviewStep(fs, rules_file, continued(wr))
       ELSE RvDecide(
              wr.queue_rows[wr.index], selection,
              wr.transactions_rows[
                locate_transaction_for_queue_item(
                  wr.transactions_rows, wr.queue_rows[wr.index].doc_id)],
              ocr,
              propose_dynamic_rules(
                selection.farm_id, selection.farm_name,
                wr.transactions_rows[
                  locate_transaction_for_queue_item(
                    wr.transactions_rows, wr.queue_rows[wr.index].doc_id)],
                ReviewFarms, wr.dynamic_rules_payload, wr.transactions_rows,
                ocr, now),
              accepted_of(
                propose_dynamic_rules(
                  selection.farm_id, selection.farm_name,
                  wr.transactions_rows[
                    locate_transaction_for_queue_item(
                      wr.transactions_rows, wr.queue_rows[wr.index].doc_id)],
                  ReviewFarms, wr.dynamic_rules_payload,
                  wr.transactions_rows, ocr, now),
                answers),
              write_ok, now)

\* lines 204-223
RvFinish ==
  /\ wr.pc = "loop" /\ wr.index > Len(wr.queue_rows)
  /\ \E queue_ok, transactions_ok \in BOOLEAN :
       IF wr.dry_run THEN ReviewStep(fs, rules_file, exited(wr, 0))
       ELSE IF wr.queue_writes_needed /\ ~queue_ok
       THEN ReviewStep(fs, rules_file, exited(wr, 1))
       ELSE ReviewStep(
              [fs EXCEPT
                 !.queue =
                    IF wr.queue_writes_needed
                    THEN atomic_rewrite_jsonl(@, wr.queue_rows, TRUE)
                    ELSE @,
                 !.transactions =
                    IF wr.transaction_writes_needed
                    THEN atomic_rewrite_jsonl(@, wr.transactions_rows,
                                              transactions_ok)
                    ELSE @],
              rules_file,
              exited(wr, IF wr.transaction_writes_needed /\ ~transactions_ok
                         THEN 1 ELSE 0))

\* the rows of transactions.jsonl: d1 assigned to gabba and d2 of the
\* same vendor and account assigned to b2; d2 alone, unassigned, with an
\* address or without; d2 recorded twice, once as a duplicate; a row with
\* no fingerprint
ReviewLedgers ==
  {<<LedgerRow("d1", <<"f", "1">>, FALSE, <<"p", "g">>, <<"0", "1">>,
               <<>>, <<"g", "a", "b", "b", "a">>),
     LedgerRow("d2", <<"f", "2">>, FALSE, <<"P", "G">>, <<"0", "-", "1">>,
               <<>>, <<"b", "2">>)>>,
   <<LedgerRow("d1", <<"f", "1">>, FALSE, <<"p", "g">>, <<"0", "1">>,
               <<"1", "2", " ", "g", "a", "p", ";", "a", "b">>,
               <<"g", "a", "b", "b", "a">>),
     LedgerRow("d2", <<"f", "2">>, FALSE, <<"p", "g">>, <<"0", "1">>,
               <<"1", "2", " ", "G", "a", "p", ",", " ", "b", "a", "g", "s">>,
               <<"b", "2">>)>>,
   <<LedgerRow("d2", <<"f", "2">>, FALSE, <<>>, <<>>, <<>>, <<>>)>>,
   <<LedgerRow("d2", <<"f", "2">>, TRUE, <<"p", "g">>, <<"0", "1">>, <<>>,
               <<"b", "2">>),
     LedgerRow("d2", <<"f", "2">>, FALSE, <<"p", "g">>, <<"0", "1">>, <<>>,
               <<>>)>>,
   <<LedgerRow("d1", <<>>, FALSE, <<"p", "g">>, <<"0", "1">>, <<>>, <<>>)>>}

\* the items of manual_review_queue.jsonl
ReviewQueues ==
  {<<QueueItem("d2", FALSE, <<>>)>>,
   <<QueueItem("d1", FALSE,
               <<[farm_id |-> <<"g", "a", "b", "b", "a">>,
                  farm_name |-> <<>>]>>),
     QueueItem("d2", FALSE, <<>>)>>,
   <<QueueItem("d1", TRUE, <<>>), QueueItem("d2", FALSE, <<>>)>>,
   <<QueueItem("d2", TRUE, <<>>)>>}

InitReview ==
  /\ InitStore
  /\ env = [w \in Workers |-> FreeEnv]
  /\ cl = [pc |-> "idle"]
  /\ rf_ret = NoCall
  /\ rules_file \in InitialFiles
  /\ \E queue \in {NoContent} \cup {Content(q) : q \in ReviewQueues},
        transactions_file \in
          {NoContent} \cup {Content(rows) : rows \in ReviewLedgers},
        decisions \in {NoContent, Content(<<Decision("d0", <<"f", "0">>, <<"b", "2">>)>>)},
        dry_run \in BOOLEAN :
       /\ fs = ReviewFiles(queue, decisions, transactions_file)
       /\ wr = ReviewStart(dry_run, fs, rules_file)

NextReview == RvInit \/ RvItem \/ RvFinish

SpecReview == InitReview /\ [][NextReview]_vars

\* ------------------------------------------------------------------------
\* Reinforcement and the next classification (src/core/api.py,
\* src/core/reinforcement.py, src/cli/main.py)
\* ------------------------------------------------------------------------
\* the row the pending_manual path of process_single_invoice leaves for a
\* document no farm matched
PendingRow(doc_id, content_fingerprint) ==
  transaction_row(
    [create_transaction_record(doc_id, content_fingerprint, ZeroMatchResult,
                               PayloadA1, <<>>, "")
     EXCEPT !.farm_id = NoFarm,
            !.total_cents = normalize_total_to_cents(PayloadA1.total_amount).cents],
    "pending_manual", "", FALSE, "", NullDocId, PARSE_STATUS_SUCCESS, "")

\* an entry of the file as the engine reads it with dict.get: match_text
\* of an entry written by append_bill_to_contains_all_rule or
\* upsert_dynamic_rule is None, and so is a farm_id it does not carry
rule_read(r) ==
  IF "match_text" \in DOMAIN r THEN r
  ELSE DynamicRule(r.type, r.tokens, <<>>, r.farm_key, r.rule_id,
                   r.vendor_key, r.account_number,
                   r.service_address_contains, r.keywords_any,
                   IF r.farm_id = <<>> THEN NoFarm ELSE r.farm_id,
                   r.priority)

\* src/cli/main.py line 679: the "rules" list of the payload loaded
RECURSIVE rules_read(_)
rules_read(rules) ==
  IF rules = <<>> THEN <<>>
  ELSE <<rule_read(Head(rules))>> \o rules_read(Tail(rules))

\* src/cli/main.py lines 1035 and 679: a run of the pipeline loads the
\* rules file and hands its rules and the text of a document to the
\* classification stage
RnLoad ==
  /\ cl.pc = "idle"
  /\ \E vision_text \in OverrideTexts :
       cl' = ClStart("sqlite", vision_text,
                     rules_read(load_dynamic_rules(rules_file).rules),
                     EngineFarms(<<"p", "g">>))
  /\ UNCHANGED <<db_vars, next_uuid, calls, pc, loc, run, env, legacy_vars,
                 rules_file, rf_ret, fs, wr>>

\* the document in manual review
ReinforcedText == <<"B", "b", "b", " ", "p", "a", "g">>

\* a database holding one document in manual review after one run of the
\* pipeline, and a rules file with the rules stored before
InitReinforce ==
  /\ documents =
       {[doc_id |-> 1,
         content_fingerprint |-> compute_content_fingerprint(ReinforcedText)]}
  /\ transactions =
       {PendingRow(1, compute_content_fingerprint(ReinforcedText))}
  /\ tagging_events = {1}
  /\ manual_review_queue = {1}
  /\ next_uuid = 2
  /\ calls = 1
  /\ pc = [w \in Workers |-> IF w = 1 THEN "exited" ELSE "idle"]
  /\ loc = [w \in Workers |-> InitLoc]
  /\ run = [w \in Workers |->
              IF w = 1
              THEN [InitRun EXCEPT !.mode = "single",
                                   !.last_status = "manual_review"]
              ELSE InitRun]
  /\ ledger = <<>>
  /\ seen_content_fingerprints = {}
  /\ seen_invoice_keys = {}
  /\ legacy_result = NoResult
  /\ fs = NoFiles
  /\ wr = NoWriter
  /\ env = [w \in Workers |-> FreeEnv]
  /\ cl = [pc |-> "idle"]
  /\ rf_ret = <<>>
  /\ rules_file \in
       {NoFile}
         \cup {RulesFile(TRUE, RulesPayload(version_is_str, TRUE, rules)) :
                 version_is_str \in BOOLEAN, rules \in RuleLists}

NextReinforce ==
  ManualReviewOverride \/ RnLoad \/ ClApplyDynamicRules \/ ClTagDocumentText

SpecReinforce == InitReinforce /\ [][NextReinforce]_vars

\* ------------------------------------------------------------------------
\* Properties
\* ------------------------------------------------------------------------
\* C1: a call whose text has the content fingerprint of a document already
\* stored returns skipped_duplicate / content_fingerprint and has inserted
\* no document row and no transaction row; one document row at most holds a
\* fingerprint, and only that document has a transaction with it.
C1_FingerprintDuplicateSkipped ==
  /\ \A w \in Workers :
       loc[w].fp_held =>
         /\ pc[w] = "returned"
         /\ loc[w].result = [status |-> "skipped_duplicate",
                             reason |-> "content_fingerprint"]
         /\ loc[w].wrote.documents = 0
         /\ loc[w].wrote.transactions = 0
         /\ \A d \in documents : d.doc_id # loc[w].doc_id
         /\ \A t \in transactions : t.doc_id # loc[w].doc_id
  /\ \A d1, d2 \in documents :
       (d1.content_fingerprint = d2.content_fingerprint
          /\ d1.content_fingerprint # NullFingerprint) => d1 = d2
  /\ \A d \in documents, t \in transactions :
       (d.content_fingerprint # NullFingerprint
          /\ t.content_fingerprint = d.content_fingerprint) => t.doc_id = d.doc_id

\* a second call on the noisy scan of a recorded document was skipped
C1_Witness ==
  \E w \in Workers :
    /\ pc[w] = "returned"
    /\ loc[w].fp_held
    /\ loc[w].vision_text = TextANoisy
    /\ \E d \in documents :
         d.content_fingerprint = compute_content_fingerprint(TextA)
    /\ \E t \in transactions :
         t.content_fingerprint = loc[w].content_fingerprint

\* C2: the fingerprint check precedes classification and parsing; a call
\* that is a fingerprint duplicate enters neither stage and writes no
\* tagging event, no review-queue entry and no transaction.
C2_ShortCircuitBeforeClassification ==
  \A w \in Workers :
    LET st == loc[w].stages
    IN  /\ \A i \in 1..Len(st) :
             st[i] \in {"classification", "structured_parse"} =>
               \E j \in 1..(i - 1) : st[j] = "fingerprint_check"
        /\ loc[w].fp_held =>
             /\ st[Len(st)] = "fingerprint_check"
             /\ \A i \in 1..Len(st) :
                  st[i] \notin {"classification", "structured_parse",
                                "payload_validation"}
             /\ loc[w].wrote.tagging_events = 0
             /\ loc[w].wrote.manual_review_queue = 0
             /\ loc[w].wrote.transactions = 0
             /\ loc[w].doc_id \notin tagging_events
             /\ loc[w].doc_id \notin manual_review_queue

\* a duplicate was skipped after the first call had been classified
C2_Witness ==
  \E w \in Workers :
    /\ loc[w].fp_held
    /\ loc[w].result.status = "skipped_duplicate"
    /\ tagging_events # {}
    /\ loc[w].stages = <<"path_validation", "text_extraction",
                         "empty_text_check", "fingerprint_check">>

\* C3: at most one transaction with duplicate_detected = false carries a
\* given non-null invoice key, whether auto or pending_manual.
C3_OneOriginalPerInvoiceKey ==
  \A t1, t2 \in transactions :
    (/\ ~t1.duplicate_detected
     /\ ~t2.duplicate_detected
     /\ t1.invoice_key # NoKey
     /\ t1.invoice_key = t2.invoice_key) => t1 = t2

\* an original and a later transaction of the same key stand side by side
C3_Witness ==
  \E t1, t2 \in transactions :
    /\ t1.status \in {"auto", "pending_manual"}
    /\ t1.invoice_key # NoKey
    /\ t2.invoice_key = t1.invoice_key
    /\ t2.doc_id # t1.doc_id

\* C4: a violation of the invoice-key uniqueness on insert is caught on the
\* auto path and on the pending_manual path alike: a stub is recorded, the
\* call returns skipped_duplicate / invoice_key, and no IntegrityError
\* leaves process_single_invoice.
C4_KeyViolationAlwaysCaught ==
  \A w \in Workers :
    /\ loc[w].raised # "IntegrityError"
    /\ (pc[w] = "returned" /\ loc[w].result.reason = "invoice_key") =>
         /\ loc[w].result.status = "skipped_duplicate"
         /\ \E t \in transactions :
              /\ t.doc_id = loc[w].doc_id
              /\ t.status = "duplicate"
              /\ t.duplicate_of_doc_id # NullDocId

\* C5: two interleaved calls on documents of different fingerprints and the
\* same non-null invoice key, both confident and validly parsed: one ends
\* as the auto transaction, the other as a duplicate stub whose
\* duplicate_of_doc_id is the doc_id of the auto one, none fails or raises,
\* and one non-duplicate row holds the key.
C5_ConcurrentSameKey ==
  LET plan_text(w)    == CHOOSE o \in env[w].vision : TRUE
      plan_tag(w)     == (CHOOSE o \in env[w].tag : TRUE).result
      plan_payload(w) == (CHOOSE o \in env[w].parse : TRUE).payload
      plan_fp(w)  == compute_content_fingerprint(str_strip(plan_text(w).text))
      plan_key(w) ==
        compute_invoice_key(
          resolve_vendor_key(plan_tag(w).top, plan_payload(w).vendor_name,
                             farms_config),
          plan_payload(w))
      confident(w) == route(plan_tag(w), "") = "auto"
      parsed(w)    == validate_invoice_payload(plan_payload(w)).valid
  IN  \A a, b \in Workers :
        (/\ a # b
         /\ pc[a] = "exited" /\ pc[b] = "exited"
         /\ confident(a) /\ confident(b) /\ parsed(a) /\ parsed(b)
         /\ plan_fp(a) # plan_fp(b)
         /\ plan_key(a) # NoKey
         /\ plan_key(a) = plan_key(b))
        => /\ {run[a].last_status, run[b].last_status}
                = {"success", "skipped_duplicate"}
           /\ \E first, second \in transactions :
                /\ first.status = "auto"
                /\ second.status = "duplicate"
                /\ {first.content_fingerprint, second.content_fingerprint}
                     = {plan_fp(a), plan_fp(b)}
                /\ second.duplicate_of_doc_id = first.doc_id
                /\ \A t \in transactions : t \in {first, second}
                /\ first.invoice_key = plan_key(a)
                /\ second.invoice_key = plan_key(a)

\* both calls are over and the call that started second holds the key
C5_Witness ==
  /\ pc[1] = "exited" /\ pc[2] = "exited"
  /\ \E first, second \in transactions :
       /\ first.status = "auto"
       /\ second.status = "duplicate"
       /\ second.duplicate_of_doc_id = first.doc_id
       /\ first.doc_id > second.doc_id
       /\ first.content_fingerprint # second.content_fingerprint

\* C6: every duplicate stub of an invoice-key collision stores the doc_id
\* of the existing non-duplicate transaction of that key, in both lineages:
\* never the key itself, never null.
C6_StubLinksOriginalDocId ==
  /\ \A t \in transactions :
       t.status = "duplicate" =>
         /\ t.duplicate_of_doc_id # NullDocId
         /\ \E o \in transactions :
              /\ ~o.duplicate_detected
              /\ o.invoice_key = t.invoice_key
              /\ o.doc_id = t.duplicate_of_doc_id
  /\ \A i \in 1..Len(ledger) :
       ledger[i].duplicate_detected =>
         /\ ledger[i].duplicate_of.kind = "doc_id"
         /\ \E j \in 1..Len(ledger) :
              /\ ~ledger[j].duplicate_detected
              /\ ledger[j].invoice_key = ledger[i].invoice_key
              /\ ledger[j].doc_id = ledger[i].duplicate_of.doc_id

\* C7: every transaction persisted with status auto has confidence of at
\* least 0.85, needs_manual_review false, a farm, parse_status success, a
\* payload validate_invoice_payload accepts, and duplicate_detected false.
C7_AutoIsConfidentParsedUnique ==
  \A t \in transactions :
    t.status = "auto" =>
      /\ t.confidence >= AutoThreshold
      /\ ~t.needs_manual_review
      /\ t.farm_key # NoFarm
      /\ t.parse_status = PARSE_STATUS_SUCCESS
      /\ t.parsed.present
      /\ validate_invoice_payload(t.parsed).raised = "none"
      /\ validate_invoice_payload(t.parsed).valid
      /\ ~t.duplicate_detected

\* an auto transaction stands next to one of a document that was not
\* confident
C7_Witness ==
  \E t, u \in transactions :
    /\ t.status = "auto"
    /\ t.confidence = 99
    /\ u.status = "pending_manual"
    /\ u.confidence < AutoThreshold

C9_StageFailureEndsAsFailed ==
  LET order == <<"path_validation", "text_extraction", "empty_text_check",
                 "fingerprint_check", "classification", "structured_parse",
                 "payload_validation">>
      reason_of(stage) ==
        CASE stage = "path_validation"    -> "path_validation"
          [] stage = "text_extraction"    -> "vision_extraction_failed"
          [] stage = "empty_text_check"   -> "empty_extraction"
          [] stage = "classification"     -> "farm_tagging_failed"
          [] stage = "structured_parse"   -> "llm_parsing_failed"
          [] stage = "payload_validation" -> "validation_failed"
          [] OTHER                        -> "none"
  IN  \A w \in Workers :
        LET st == loc[w].stages
        IN  /\ Len(st) <= Len(order)
            /\ \A i \in 1..Len(st) : st[i] = order[i]
            /\ (loc[w].failed_stage # "" /\ pc[w] \in {"returned", "raised"}) =>
                 /\ pc[w] = "returned"
                 /\ loc[w].result = [status |-> "failed",
                                     reason |-> reason_of(loc[w].failed_stage)]
                 /\ st[Len(st)] = loc[w].failed_stage
                 /\ loc[w].wrote.transactions = 1
                 /\ Cardinality({t \in transactions :
                                   t.doc_id = loc[w].doc_id}) = 1
                 /\ \A t \in transactions :
                      t.doc_id = loc[w].doc_id => t.status = "failed"
            /\ (loc[w].failed_stage # "" /\ pc[w] = "psi_finalize") =>
                 st[Len(st)] = loc[w].failed_stage

\* C10: in process_batch an exception of a call is recorded as a failed
\* transaction with error unexpected_error and the loop goes on with the
\* next file; the summary is reached only with every file handled, each
\* counted once.
C10_BatchSurvivesExceptions ==
  /\ [](\A w \in Workers :
          run[w].mode = "batch" =>
            /\ run[w].i <= run[w].total
            /\ run[w].auto_processed + run[w].manual_review
                 + run[w].skipped_duplicates + run[w].failed = run[w].i
            /\ pc[w] = "batch_summary" => run[w].i = run[w].total)
  /\ [][\A w \in Workers :
          (pc[w] = "raised" /\ run[w].mode = "batch" /\ pc'[w] # "raised") =>
            /\ pc'[w] = "batch_loop"
            /\ run'[w].i = run[w].i + 1
            /\ run'[w].failed = run[w].failed + 1
            /\ Cardinality(transactions' \ transactions) = 1
            /\ \A t \in transactions' \ transactions :
                 /\ t.status = "failed"
                 /\ t.error_reason = "unexpected_error"
                 /\ t.farm_key = NoFarm
                 /\ t.invoice_key = NoKey]_vars

\* a batch of two files reached its summary after the first file raised
C10_Witness ==
  \E w \in Workers :
    /\ pc[w] = "batch_summary"
    /\ run[w].total = 2
    /\ run[w].failed >= 1
    /\ \E t \in transactions :
         /\ t.status = "failed"
         /\ t.error_reason = "unexpected_error"
         /\ \E u \in transactions : u.doc_id > t.doc_id

\* ---------------------------------------------------------------------
\* C11: in single-document mode the process exits with zero exactly when
\* the call returned success or manual_review; every other outcome
\* (failed, an exception, an invoice-key duplicate, a content-fingerprint
\* duplicate) exits non-zero.
C11_ExitCodeByOutcome ==
  \A w \in Workers :
    (pc[w] = "exited" /\ run[w].mode = "single") =>
      (run[w].exit_code = 0 <=>
         run[w].last_status \in {"success", "manual_review"})

\* ---------------------------------------------------------------------
\* C12: apply_dynamic_rules of src/core/rules.py returns at the first match
\* in strict precedence: a matching bill_to_contains_all rule decides the
\* farm whatever bill_to_match and vendor+account rules also match, a
\* matching bill_to_match rule decides it whatever vendor+account rules
\* also match, and tag_document_text is consulted only when
\* apply_dynamic_rules returned no match.  (A rule that names no farm is
\* skipped by every loop and cannot match.)
C12_StrictRulePrecedence ==
  (cl.pc \in {"scoring", "classified"} /\ cl.lineage = "sqlite") =>
    LET rules == cl.dynamic_rules
        document_lower == normalize_text(cl.vision_text)
        document_identifier == normalize_identifier(cl.vision_text)
        contains_all == {i \in 1..Len(rules) :
                           bill_to_contains_all_hit(rules, i, document_lower)}
        match == {i \in 1..Len(rules) :
                    bill_to_match_hit(rules, i, document_lower)}
        vendor == {i \in 1..Len(rules) :
                     /\ is_vendor_rule(rules[i])
                     /\ vendor_rule_hit(rules[i], document_lower,
                                        document_identifier, cl.farms)}
        r == cl.rule_result
    IN  /\ contains_all # {} =>
             /\ r.found /\ r.matched_rule = BILL_TO_CONTAINS_ALL
             /\ r.rule = rules[first_index(contains_all)]
             /\ r.tag.top = farm_of(r.rule.farm_key, r.rule.farm_id)
        /\ (contains_all = {} /\ match # {}) =>
             /\ r.found /\ r.matched_rule = BILL_TO_MATCH
             /\ r.rule = rules[first_index(match)]
             /\ r.tag.top = farm_of(r.rule.farm_key, r.rule.farm_id)
        /\ (contains_all = {} /\ match = {} /\ vendor # {}) =>
             /\ r.found /\ r.matched_rule = "dynamic_rule"
             /\ \E i \in vendor : r.rule = rules[i] /\ r.tag.top = rules[i].farm_id
        /\ (contains_all = {} /\ match = {} /\ vendor = {}) => ~r.found
        /\ ~r.found <=> (cl.pc = "scoring" \/ cl.scoring_consulted)
        /\ (cl.pc = "classified" /\ r.found) =>
             ~cl.scoring_consulted /\ cl.tag_result = r.tag

\* a bill_to_contains_all rule for farm_a decided the farm although a
\* bill_to_match rule and a vendor+account rule for farm_b matched too
C12_Witness ==
  /\ cl.pc = "classified"
  /\ cl.lineage = "sqlite"
  /\ ~cl.scoring_consulted
  /\ cl.rule_result.matched_rule = BILL_TO_CONTAINS_ALL
  /\ cl.tag_result.top = "farm_a"
  /\ \E i, j \in 1..Len(cl.dynamic_rules) :
       /\ i < j
       /\ is_vendor_rule(cl.dynamic_rules[i])
       /\ cl.dynamic_rules[i].farm_id = "farm_b"
       /\ vendor_rule_hit(cl.dynamic_rules[i],
                          normalize_text(cl.vision_text),
                          normalize_identifier(cl.vision_text), cl.farms)
       /\ cl.dynamic_rules[j].type = BILL_TO_CONTAINS_ALL

\* ---------------------------------------------------------------------
\* C13: among the vendor+account rules that match a document,
\* apply_dynamic_rules picks a rule of the lowest tier (0 with
\* service_address_contains, 1 with keywords_any only, 2 with neither),
\* whatever the declared priorities; inside that tier it picks the highest
\* priority and, at equal priority, the smallest rule_id.  Stated of both
\* lineages' apply_dynamic_rules, when no bill-to rule decides.
C13_LowestTierWins ==
  cl.pc \in {"scoring", "classified"} =>
    LET rules == cl.dynamic_rules
        document_lower == normalize_text(cl.vision_text)
        document_identifier == normalize_identifier(cl.vision_text)
        bill_to == {i \in 1..Len(rules) :
                      \/ bill_to_contains_all_hit(rules, i, document_lower)
                      \/ bill_to_match_hit(rules, i, document_lower)}
        vendor == {i \in 1..Len(rules) :
                     /\ is_vendor_rule(rules[i])
                     /\ vendor_rule_hit(rules[i], document_lower,
                                        document_identifier, cl.farms)}
        picked == cl.rule_result.rule
    IN  ((cl.lineage = "sqlite" => bill_to = {}) /\ vendor # {}) =>
          /\ cl.rule_result.found
          /\ \E i \in vendor : rules[i] = picked
          /\ \A j \in vendor :
               /\ tier(picked) <= tier(rules[j])
               /\ tier(picked) = tier(rules[j]) =>
                    /\ picked.priority >= rules[j].priority
                    /\ picked.priority = rules[j].priority =>
                         ~str_less(rules[j].rule_id, picked.rule_id)

\* ---------------------------------------------------------------------
\* C14: a matching vendor+account rule with empty service_address_contains
\* and empty keywords_any yields confidence 0.70 and needs_manual_review
\* true, so that the document is reviewed and not finalised as auto; a
\* matching rule with a disambiguator yields confidence 0.99 and
\* needs_manual_review false.  Stated of both lineages'
\* apply_dynamic_rules.
C14_VendorOnlyRuleIsReviewed ==
  (cl.pc = "classified" /\ cl.rule_result.found
     /\ cl.rule_result.matched_rule = "dynamic_rule") =>
    IF cl.rule_result.rule.service_address_contains = <<>>
         /\ cl.rule_result.rule.keywords_any = <<>>
    THEN /\ cl.tag_result.confidence = 70
         /\ cl.tag_result.needs_manual_review
         /\ needs_review(cl.tag_result)
    ELSE /\ cl.tag_result.confidence = 99
         /\ ~cl.tag_result.needs_manual_review
         /\ ~needs_review(cl.tag_result)

\* ---------------------------------------------------------------------
\* C15: the confidence of tag_document_text follows from the top score
\* and its gap to the second score (0 when there is none): top >= 1.0 and
\* gap >= 0.5 give 0.95; else top >= 1.0 and gap >= 0.3 give 0.85; else
\* top >= 0.5 gives 0.70; else top > 0 gives top/2 (to the hundredth the
\* result is rounded to); top = 0 gives confidence 0.0, no top candidate,
\* needs_manual_review and the reason 'Zero matches found'.  Stated where
\* no guard can fire: a single candidate, or a top candidate with an
\* identifier-level match.  Scores are the sums of 1.0, 0.15 and 0.25 the
\* matches add up to, in thousandths.
C15_ConfidenceThresholdTable ==
  (cl.pc = "classified" /\ cl.scoring_consulted) =>
    LET candidates == cl.scored.all_candidates
        top == IF candidates = <<>> THEN 0 ELSE candidates[1].score.m
        second == IF Len(candidates) > 1 THEN candidates[2].score.m ELSE 0
        gap == top - second
        tag == cl.scored.tag
    IN  /\ candidates = <<>> =>
             /\ tag = TagResult(NoFarm, 0, TRUE)
             /\ cl.scored.reason = "Zero matches found"
        /\ (candidates # <<>>
              /\ (Len(candidates) = 1 \/ has_identifier_match(candidates[1]))) =>
             /\ tag.top = candidates[1].farm_id
             /\ (top >= 1000 /\ gap >= 500) => tag.confidence = 95
             /\ (top >= 1000 /\ gap >= 300 /\ gap < 500) => tag.confidence = 85
             /\ ((top >= 1000 /\ gap < 300) \/ (top >= 500 /\ top < 1000)) =>
                  tag.confidence = 70
             /\ top < 500 =>
                  (20 * tag.confidence <= top /\ top < 20 * (tag.confidence + 1))
             /\ (top = 1000 /\ Len(candidates) = 1) =>
                  (tag.confidence = 95 /\ ~tag.needs_manual_review)

\* ---------------------------------------------------------------------
\* C16: when the two top-ranked candidate farms share a vendor key in the
\* farms configuration and the top candidate has no identifier-level
\* match, tag_document_text returns a confidence of at most 0.70 and
\* needs_manual_review true, even when the keyword-only top score is 1.0
\* or more with a gap of 0.5 or more.
C16_SharedVendorNeedsIdentifier ==
  (cl.pc = "classified" /\ cl.scoring_consulted
     /\ Len(cl.scored.all_candidates) >= 2) =>
    LET candidates == cl.scored.all_candidates
        keys_of(farm_id) ==
          UNION {{cl.farms[f].vendors[v].key :
                    v \in 1..Len(cl.farms[f].vendors)} :
                   f \in {g \in 1..Len(cl.farms) : cl.farms[g].id = farm_id}}
    IN  (keys_of(candidates[1].farm_id) \cap keys_of(candidates[2].farm_id) # {}
           /\ "identifier_match" \notin candidates[1].matched_rules
           /\ "vendor_identifier_match" \notin candidates[1].matched_rules) =>
          /\ cl.scored.tag.confidence <= 70
          /\ cl.scored.tag.needs_manual_review

\* four vendor keywords gave farm_b 1.0 against 0.5 for farm_a, whose
\* vendor has the same key: the table's 0.95 was capped
C16_Witness ==
  /\ cl.pc = "classified"
  /\ cl.scoring_consulted
  /\ Len(cl.scored.all_candidates) = 2
  /\ cl.farms = EngineFarms(<<"p", "g">>)
  /\ cl.scored.all_candidates[1].matched_rules = {"vendor_keyword"}
  /\ cl.scored.all_candidates[1].score.m >= 1000
  /\ cl.scored.all_candidates[1].score.m
       - cl.scored.all_candidates[2].score.m >= 500
  /\ cl.scored.tag = TagResult("farm_b", 70, TRUE)

\* ---------------------------------------------------------------------
\* C17: every TagResult of tag_document_text and of apply_dynamic_rules
\* has needs_manual_review true whenever its confidence is below 0.85; it
\* is false only if the confidence is at least 0.85, a top candidate
\* exists and no guard fired; and the guards never raise the confidence
\* the threshold table computed.
C17_ReviewFlagFollowsConfidence ==
  /\ (cl.pc = "classified" /\ cl.lineage = "sqlite" /\ cl.rule_result.found) =>
       /\ cl.rule_result.tag.confidence < 85 =>
            cl.rule_result.tag.needs_manual_review
       /\ ~cl.rule_result.tag.needs_manual_review =>
            /\ cl.rule_result.tag.confidence >= 85
            /\ cl.rule_result.tag.top # NoFarm
  /\ (cl.pc = "classified" /\ cl.scoring_consulted) =>
       LET candidates == scored_candidates(str_lower(cl.vision_text), cl.farms)
           table == threshold_table(top_score_of(candidates),
                                    gap_of(candidates))
           tag == cl.scored.tag
       IN  /\ tag.confidence < 85 => tag.needs_manual_review
           /\ ~tag.needs_manual_review =>
                /\ tag.confidence >= 85
                /\ tag.top # NoFarm
                /\ candidates # <<>>
                /\ ~keyword_guard(candidates, gap_of(candidates))
                /\ ~vendor_ambiguity_guard(candidates, cl.farms)
                /\ tag.confidence = round_2(table)
           /\ candidates # <<>> => tag.confidence <= round_2(table)

\* two farms tied on keyword matches alone: the keyword guard forced the
\* review of a result whose table confidence is 0.70
C17_Witness ==
  /\ cl.pc = "classified"
  /\ cl.scoring_consulted
  /\ cl.scored.reason =
       "Multiple farm candidates with similar keyword scores; identifier match required"
  /\ cl.scored.tag.confidence = 70
  /\ cl.scored.tag.needs_manual_review
  /\ cl.scored.all_candidates[1].score.m >= 500

\* ---------------------------------------------------------------------
\* C18: scoring is additive and monotone: one more identifier or keyword
\* entry in a farm never lowers that farm's score, leaves the score of
\* every other farm unchanged and, for an identifier that occurs in the
\* document, raises the farm's score by exactly 1.0 (the new score is
\* the old score + 1.0, or the new score - the old score is 1.0, in the
\* arithmetic of the program's floats).
C18_ScoringAdditiveMonotone ==
  cl.last_edit # NoEdit =>
    LET f == cl.last_edit.farm
        entry == str_lower(str_strip(cl.last_edit.entry))
    IN  /\ \A g \in 1..Len(cl.farms) :
             g # f => cl.scores[g] = cl.previous_scores[g]
        /\ ~float_lt(cl.scores[f], cl.previous_scores[f])
        /\ (cl.last_edit.kind = "identifiers" /\ entry # <<>>
              /\ str_contains(entry, str_lower(cl.vision_text))) =>
             \/ cl.scores[f] =
                  float_add(cl.previous_scores[f], float_literal(1000))
             \/ float_sub(cl.scores[f], cl.previous_scores[f]) =
                  float_literal(1000)

C20_NoStoredRuleDeleted ==
  (rf_ret.op # "none" /\ rf_ret.before.exists /\ rf_ret.before.parses
     /\ rf_ret.before.payload.rules_is_list) =>
    /\ rules_file.exists /\ rules_file.parses
    /\ rules_file.payload.rules_is_list
    /\ \A i \in 1..Len(rf_ret.before.payload.rules) :
         \E j \in 1..Len(rules_file.payload.rules) :
           rules_file.payload.rules[j] = rf_ret.before.payload.rules[i]

\* ---------------------------------------------------------------------
\* C25: compute_invoice_key is a strict precedence chain: None when the
\* vendor key or the payload is missing; else the Tier A key of account
\* and invoice number whenever both are present, whatever the other
\* fields; else the Tier B key when account, date and a non-None amount
\* are present; else the Tier C key when address, date and a non-None
\* amount are present; else None.
C25_InvoiceKeyPrecedence ==
  (cl.pc = "returned" /\ cl.fn = "compute_invoice_key") =>
    LET p == cl.payload
        key == cl.invoice_key
        dated == p.invoice_date # <<>> /\ p.total_amount.kind # "none"
    IN  IF cl.vendor_key = <<>> \/ ~p.present THEN key = NoKey
        ELSE IF p.account_number # <<>> /\ p.invoice_number # <<>>
        THEN key = [NoKey EXCEPT !.tier = "A", !.vendor = cl.vendor_key,
                                 !.acct = norm_identifier(p.account_number),
                                 !.inv = norm_identifier(p.invoice_number)]
        ELSE IF p.account_number # <<>> /\ dated
        THEN /\ key.tier = "B" /\ key.vendor = cl.vendor_key
             /\ key.acct = norm_identifier(p.account_number)
             /\ key.date = norm_date(p.invoice_date)
             /\ key.cents = amount_to_cents(p.total_amount)
             /\ key.inv = <<>> /\ key.addr = <<>>
        ELSE IF p.service_address # <<>> /\ dated
        THEN /\ key.tier = "C" /\ key.vendor = cl.vendor_key
             /\ key.addr = norm_address(p.service_address)
             /\ key.date = norm_date(p.invoice_date)
             /\ key.cents = amount_to_cents(p.total_amount)
             /\ key.inv = <<>> /\ key.acct = <<>>
        ELSE key = NoKey

\* a payload with every field present has been given its Tier A key
C25_Witness ==
  /\ cl.pc = "returned" /\ cl.fn = "compute_invoice_key"
  /\ cl.payload.present
  /\ cl.payload.account_number # <<>> /\ cl.payload.invoice_number # <<>>
  /\ cl.payload.invoice_date # <<>> /\ cl.payload.service_address # <<>>
  /\ cl.payload.total_amount.kind = "num"
  /\ cl.invoice_key.tier = "A"
  /\ cl.invoice_key.acct = <<"0", "1">>

\* ---------------------------------------------------------------------
\* C26: a payload whose total_amount is the empty string, its other
\* fields valid, fails validation with invalid_amount.
C26_EmptyTotalIsInvalidAmount ==
  (/\ cl.pc = "returned" /\ cl.fn = "validate_invoice_payload"
   /\ cl.payload.present
   /\ cl.payload.vendor_name = <<"P", "G">>
   /\ cl.payload.invoice_number = <<"A", "-", "1">>
   /\ cl.payload.invoice_date = <<"2025-01-09">>
   /\ cl.payload.total_amount = StrAmount(<<>>))
    => (/\ cl.answer.raised = "none" /\ ~cl.answer.valid
        /\ cl.answer.reason = "invalid_amount")

\* the reason codes of the payloads whose total_amount is not blank and
\* is finite: missing_required_field, then invalid_date_format, then
\* invalid_amount, then zero_amount
C26_ReasonCodesOfNonBlankTotals ==
  (/\ cl.pc = "returned" /\ cl.fn = "validate_invoice_payload"
   /\ cl.payload.present
   /\ cl.payload.total_amount.kind \in {"num", "str"}
   /\ str_strip(cl.payload.total_amount.text) # <<>>
        \/ cl.payload.total_amount.kind = "num")
    => LET p == cl.payload
           total == normalize_total_to_cents(p.total_amount)
           code == IF \/ str_strip(p.vendor_name) = <<>>
                      \/ str_strip(p.invoice_number) = <<>>
                      \/ str_strip(p.invoice_date) = <<>>
                   THEN "missing_required_field"
                   ELSE IF p.invoice_date \notin
                             {<<"2025-01-09">>, <<"01/09/2025">>}
                   THEN "invalid_date_format"
                   ELSE IF total.err = "ValueError" THEN "invalid_amount"
                   ELSE IF total.cents = 0 THEN "zero_amount"
                   ELSE ""
       IN  /\ cl.answer.raised = "none"
           /\ cl.answer.reason = code
           /\ cl.answer.valid = (code = "")

\* ---------------------------------------------------------------------
\* C28: compute_content_fingerprint gives one fingerprint to two texts
\* that differ only in letter case, in punctuation standing where the
\* other text has whitespace or more punctuation, and in the length of
\* whitespace runs. Punctuation is what the code's pattern [^\w\s]
\* matches: every character that is neither a word character (letters,
\* digits, underscore) nor whitespace.
\*
\* one step of the reading below: a word character is kept case-folded,
\* anything else joins the separator in front of what follows
noise_shape_step(c, rest) ==
  IF IsWord(c) THEN <<LowerChar(c)>> \o rest
  ELSE IF rest # <<>> /\ Head(rest) = "SEP" THEN rest
  ELSE <<"SEP">> \o rest

\* what is left of a text when case, the choice between punctuation and
\* whitespace and the length of the runs of both are forgotten
RECURSIVE noise_shape(_)
noise_shape(s) ==
  IF s = <<>> THEN <<>> ELSE noise_shape_step(Head(s), noise_shape(Tail(s)))

bill_to_rules_of(file, farm_key, token_set) ==
  IF ~file.exists \/ ~file.parses \/ ~file.payload.rules_is_list THEN {}
  ELSE {i \in 1..Len(file.payload.rules) :
          /\ file.payload.rules[i].type = "bill_to_contains_all"
          /\ file.payload.rules[i].farm_key = farm_key
          /\ {file.payload.rules[i].tokens[k] :
                k \in 1..Len(file.payload.rules[i].tokens)} = token_set}

C29_AppendIdempotent ==
  (rf_ret.op = "append_bill_to_contains_all_rule" /\ ~rf_ret.raised) =>
    LET farm_key == rf_ret.new_rule[1]
        tokens == rf_ret.new_rule[2]
        token_set == {tokens[k] : k \in 1..Len(tokens)}
    IN  /\ bill_to_rules_of(rf_ret.before, farm_key, token_set) # {}
          => (~rf_ret.created /\ rules_file = rf_ret.before)
        /\ \A input \in BillToInputs :
             Cardinality(bill_to_rules_of(rules_file, input[1],
                           {input[2][k] : k \in 1..Len(input[2])})) <= 1

\* the second call, with the tokens of the first in the other order, has
\* returned False and the file holds the one rule of the first call
C29_Witness ==
  /\ rf_ret.op = "append_bill_to_contains_all_rule" /\ ~rf_ret.raised
  /\ rf_ret.calls = 2
  /\ rf_ret.new_rule = <<"farm_a", <<<<"p", "a", "g">>, <<"b", "b", "b">>>>>>
  /\ ~rf_ret.created
  /\ rules_file = rf_ret.before
  /\ rules_file.exists /\ rules_file.parses
  /\ Len(rules_file.payload.rules) = 1
  /\ rules_file.payload.rules[1].type = "bill_to_contains_all"
  /\ rules_file.payload.rules[1].farm_key = "farm_a"
  /\ rules_file.payload.rules[1].tokens = <<<<"b", "b", "b">>, <<"p", "a", "g">>>>

\* ---------------------------------------------------------------------
\* C21: when the process has crashed during a rewrite of the dynamic-rules
\* file or of the transaction ledger, the file at the original path holds
\* the complete previous content or the complete new content.
\*
\* the content the rewrite under way is to leave at the path
new_content ==
  Content(IF wr.op = "update_jsonl_record"
          THEN updated_records(wr.before.lines, wr.updated_record)
          ELSE wr.data)

C21_CrashLeavesOldOrNew ==
  wr.pc = "crashed" => (fs.path = wr.before \/ fs.path = new_content)

\* the same of the two rewrites that go through the temp file
C21_AtomicRewriteCrashLeavesOldOrNew ==
  (wr.pc = "crashed" /\ wr.op # "update_jsonl_record")
    => (fs.path = wr.before \/ fs.path = new_content)

\* ---------------------------------------------------------------------
\* C22: when atomic_rewrite_json has failed, for a write error, a
\* serialization error of the data, a read-back error or a rename error,
\* the temp file is deleted, the file at the path is unchanged and the
\* failure raised is LedgerIOError.
C22_FailureCleansUpAndReports ==
  (wr.pc = "raised" /\ wr.op = "atomic_rewrite_json")
    => (/\ ~fs.tmp.exists
        /\ fs.path = wr.before
        /\ wr.raised = "LedgerIOError")

\* the same of the failures that are an OSError or a JSONDecodeError
C22_CaughtFailureCleansUpAndReports ==
  (wr.pc = "raised" /\ wr.op = "atomic_rewrite_json"
     /\ wr.raised # "TypeError")
    => (/\ ~fs.tmp.exists
        /\ fs.path = wr.before
        /\ wr.raised = "LedgerIOError")

\* ---------------------------------------------------------------------
\* C23: check_account_collision returns true exactly when the farm ids
\* that the farm configuration, the dynamic rules and the transactions
\* not flagged as duplicates associate with the normalized vendor and
\* account are more than one; it returns false when the normalized vendor
\* or the normalized account is empty.
\*
\* every (vendor, account, farm id) association of the three sources,
\* keys normalized and farm ids trimmed
associations ==
  {<<normalize_identifier(cl.farms_config[i].vendors[j].key),
     normalize_identifier(
       (cl.farms_config[i].vendors[j].identifiers
          \o cl.farms_config[i].vendors[j].account_numbers)[k]),
     str_strip(cl.farms_config[i].id)>> :
     <<i, j, k>> \in
       {t \in (1..2) \X (1..1) \X (1..2) :
          /\ t[1] <= Len(cl.farms_config)
          /\ t[2] <= Len(cl.farms_config[t[1]].vendors)
          /\ t[3] <= Len(cl.farms_config[t[1]].vendors[t[2]].identifiers)
                       + Len(cl.farms_config[t[1]].vendors[t[2]]
                               .account_numbers)}}
    \cup {<<normalize_identifier(m.vendor_key),
            normalize_identifier(m.account_number), str_strip(m.farm_id)>> :
            m \in {cl.dynamic_rules_payload[i] :
                     i \in 1..Len(cl.dynamic_rules_payload)}
                  \cup {cl.transactions_rows[i] :
                          i \in {n \in 1..Len(cl.transactions_rows) :
                                   ~cl.transactions_rows[n]
                                      .duplicate_detected}}}

C23_CollisionIffSeveralFarms ==
  (cl.pc = "returned" /\ cl.fn = "check_account_collision") =>
    LET vendor == normalize_identifier(cl.vendor_key)
        account == normalize_identifier(cl.account_number)
        farm_ids == {a[3] : a \in {b \in associations :
                                     /\ b[1] = vendor /\ b[2] = account
                                     /\ b[3] # <<>>}}
    IN  /\ (vendor = <<>> \/ account = <<>>) => ~cl.collision
        /\ (vendor # <<>> /\ account # <<>>)
             => (cl.collision <=> Cardinality(farm_ids) > 1)

\* a collision found between a farm of the configuration and another
\* farm of a transaction, the keys spelled differently in the two
C23_Witness ==
  /\ cl.pc = "returned" /\ cl.fn = "check_account_collision"
  /\ cl.collision
  /\ cl.vendor_key = <<"P", "-", "G">>
  /\ cl.account_number = <<"0", "/", "1">>
  /\ Len(cl.farms_config) = 1
  /\ cl.dynamic_rules_payload = <<>>
  /\ Len(cl.transactions_rows) = 2
  /\ ~cl.transactions_rows[1].duplicate_detected

\* ---------------------------------------------------------------------
\* C27: a manual override of a transaction sets the farm of the
\* transaction to the farm selected and its needs_manual_review flag to
\* false.
C27_OverrideSetsFarmAndClearsFlag ==
  (wr.pc = "returned" /\ wr.op = "manual_review_override"
     /\ wr.response = "303")
    => \A t \in transactions :
         t.doc_id = wr.tx_id
           => (t.farm_key = wr.farm_key /\ ~t.needs_manual_review)

\* the part of it that is about the farm
C27_OverrideSetsFarm ==
  (wr.pc = "returned" /\ wr.op = "manual_review_override"
     /\ wr.response = "303")
    => \A t \in transactions :
         t.doc_id = wr.tx_id
           => (t.farm_key = wr.farm_key /\ t.status = "manual")

\* the review in the command line does what the claim says of it: the row
\* it selected has the farm selected, needs_manual_review false and
\* manual_override true
C27_ReviewSetsFarmAndClearsFlag ==
  (wr.op = "review_manual" /\ wr.last.called /\ ~wr.dry_run)
    => \E i \in 1..Len(wr.transactions_rows) :
         /\ wr.transactions_rows[i].doc_id = wr.last.doc_id
         /\ wr.transactions_rows[i].farm_id = wr.last.selected_farm_id
         /\ ~wr.transactions_rows[i].needs_manual_review
         /\ wr.transactions_rows[i].manual_override

\* ---------------------------------------------------------------------
\* two rows that are not duplicates, of the vendor and the account once
\* normalized, assigned to two farms
collision_pair(rows, vendor_key, account_number) ==
  /\ normalize_identifier(vendor_key) # <<>>
  /\ normalize_identifier(account_number) # <<>>
  /\ \E i, j \in 1..Len(rows) :
       /\ \A k \in {i, j} :
            /\ ~rows[k].duplicate_detected
            /\ normalize_identifier(rows[k].vendor_key)
                 = normalize_identifier(vendor_key)
            /\ normalize_identifier(rows[k].account_number)
                 = normalize_identifier(account_number)
            /\ str_strip(rows[k].farm_id) # <<>>
       /\ str_strip(rows[i].farm_id) # str_strip(rows[j].farm_id)

\* C24: when the ledger holds two non-duplicate transactions of the same
\* normalized vendor and account assigned to two different farms, every
\* proposal propose_dynamic_rules returns for that vendor and account has
\* a non-empty service_address_contains or a non-empty keywords_any, and
\* it returns no proposal when no disambiguator was extracted.
C24_CollisionProposalsCarryDisambiguator ==
  (wr.op = "review_manual" /\ wr.last.called
     /\ collision_pair(wr.last.transactions_rows, wr.last.vendor_key,
                       wr.last.account_number))
    => /\ \A k \in 1..Len(wr.last.proposals) :
            \/ wr.last.proposals[k].service_address_contains # <<>>
            \/ wr.last.proposals[k].keywords_any # <<>>
       /\ (wr.last.service_disambiguators = <<>>
             /\ wr.last.keyword_disambiguators = <<>>)
            => wr.last.proposals = <<>>

\* a review under such a ledger was offered two proposals, one on the
\* address and one on a keyword
C24_Witness ==
  /\ wr.op = "review_manual" /\ wr.last.called
  /\ collision_pair(wr.last.transactions_rows, wr.last.vendor_key,
                    wr.last.account_number)
  /\ Len(wr.last.proposals) = 2
  /\ wr.last.proposals[1].service_address_contains # <<>>
  /\ wr.last.proposals[2].keywords_any # <<>>

\* a review under such a ledger found no disambiguator and was offered
\* nothing
C24_WitnessNoProposal ==
  /\ wr.op = "review_manual" /\ wr.last.called
  /\ collision_pair(wr.last.transactions_rows, wr.last.vendor_key,
                    wr.last.account_number)
  /\ wr.last.service_disambiguators = <<>>
  /\ wr.last.keyword_disambiguators = <<>>
  /\ wr.last.proposals = <<>>

\* ---------------------------------------------------------------------
\* C30: a run of the review with --dry-run leaves the queue file, the
\* decisions file, the transactions file and the dynamic-rules file as
\* they were, and creates none of them.
C30_DryRunModifiesNoFile ==
  (wr.op = "review_manual" /\ wr.dry_run)
    => (fs = wr.before /\ rules_file = wr.before_rules)

\* the three files of outputs/ are left as they were
C30_DryRunLeavesLedgerFiles ==
  (wr.op = "review_manual" /\ wr.dry_run) => fs = wr.before

\* a dry run reviewed an item and reached its end
C30_DryRunReviewed ==
  /\ wr.op = "review_manual" /\ wr.dry_run /\ wr.pc = "exited"
  /\ wr.exit_code = 0 /\ wr.last.called

\* ---------------------------------------------------------------------
\* C31: in the SQLite pipeline, whenever no run is under way, every
\* document row has exactly one transaction row with its doc_id and every
\* transaction row names a document row.
C31_DocumentsAndTransactionsPaired ==
  pc[1] \in StartPoints
    => /\ \A d \in documents :
            Cardinality({t \in transactions : t.doc_id = d.doc_id}) = 1
       /\ \A t \in transactions : \E d \in documents : d.doc_id = t.doc_id

\* the half of it that holds at every step: a transaction row names a
\* document row, and no document has two transaction rows
C31_NoOrphanTransaction ==
  /\ \A t \in transactions : \E d \in documents : d.doc_id = t.doc_id
  /\ \A d \in documents :
       Cardinality({t \in transactions : t.doc_id = d.doc_id}) <= 1

\* a call that returned left one document row and one transaction row
\* with its doc_id, or neither on a fingerprint duplicate
C31_ReturnedCallPaired ==
  \A w \in Workers :
    pc[w] = "returned"
      => IF loc[w].result = [status |-> "skipped_duplicate",
                             reason |-> "content_fingerprint"]
         THEN /\ \A d \in documents : d.doc_id # loc[w].doc_id
              /\ \A t \in transactions : t.doc_id # loc[w].doc_id
         ELSE /\ \E d \in documents : d.doc_id = loc[w].doc_id
              /\ Cardinality({t \in transactions :
                                t.doc_id = loc[w].doc_id}) = 1

\* ---------------------------------------------------------------------
\* C32: a call that finds for its text only transactions of status failed
\* is not returned as a content-fingerprint duplicate.
C32_FailedAttemptKeepsFingerprintFree ==
  \A w \in Workers :
    (/\ pc[w] = "returned"
     /\ loc[w].result = [status |-> "skipped_duplicate",
                         reason |-> "content_fingerprint"]
     /\ \E t \in transactions :
          t.content_fingerprint = loc[w].content_fingerprint)
      => \E t \in transactions :
           /\ t.content_fingerprint = loc[w].content_fingerprint
           /\ t.status # "failed"

\* the failures before the fingerprint hold none: their document row has
\* no fingerprint
C32_ExtractionFailureHoldsNoFingerprint ==
  \A t \in transactions :
    t.error_reason \in {"path_validation", "vision_extraction_failed",
                        "empty_vision_extraction"}
      => \A d \in documents :
           d.doc_id = t.doc_id => d.content_fingerprint = NullFingerprint

\* ---------------------------------------------------------------------
\* the state InitReinforce starts from is one the pipeline leaves
C33_SeedReached ==
  /\ pc[1] = "exited"
  /\ transactions = {PendingRow(1, compute_content_fingerprint(ReinforcedText))}
  /\ documents =
       {[doc_id |-> 1,
         content_fingerprint |-> compute_content_fingerprint(ReinforcedText)]}
  /\ manual_review_queue = {1} /\ tagging_events = {1}
  /\ next_uuid = 2 /\ calls = 1
  /\ run[1] = [InitRun EXCEPT !.mode = "single",
                              !.last_status = "manual_review"]

\* the override asked for a reinforcement rule and gave tokens for it,
\* and the classification stage has then run on the text of the document
\* with the rules of the file as it is now
reinforced_then_classified ==
  /\ wr.pc = "returned" /\ wr.op = "manual_review_override"
  /\ wr.response = "303" /\ wr.create_reinforcement_rule
  /\ extract_bill_to_tokens(wr.raw_text) # <<>>
  /\ cl.pc = "classified"
  /\ cl.vision_text = wr.raw_text
  /\ cl.dynamic_rules = rules_read(load_dynamic_rules(rules_file).rules)

\* C33: after a manual override with reinforcement of a document to a
\* farm, apply_dynamic_rules on the text of the document with the
\* reloaded rules returns that farm with confidence 0.99 and no manual
\* review, whatever rules were stored before.
C33_LatestCorrectionDecides ==
  reinforced_then_classified
    => /\ cl.rule_result.found
       /\ cl.tag_result = TagResult(wr.farm_key, 99, FALSE)

\* the new rule is in the list the engine was given
new_rule_loaded ==
  \E i \in 1..Len(cl.dynamic_rules) :
    _rule_equal(cl.dynamic_rules[i], wr.farm_key,
                extract_bill_to_tokens(wr.raw_text))

\* when the rule reached the engine and no bill_to_contains_all rule
\* stored before it holds for the text, the new rule decides
C33_NewRuleDecidesUnlessEarlierRule ==
  (/\ reinforced_then_classified
   /\ new_rule_loaded
   /\ \A i \in 1..Len(cl.dynamic_rules) :
        bill_to_contains_all_hit(cl.dynamic_rules, i,
                                 normalize_text(cl.vision_text))
          => _rule_equal(cl.dynamic_rules[i], wr.farm_key,
                         extract_bill_to_tokens(wr.raw_text)))
    => /\ cl.rule_result.found
       /\ cl.tag_result = TagResult(wr.farm_key, 99, FALSE)

\* an override was reinforced and the next classification followed it
C33_Reinforced ==
  /\ reinforced_then_classified
  /\ new_rule_loaded
  /\ cl.rule_result.found
  /\ cl.tag_result = TagResult(wr.farm_key, 99, FALSE)

\* ---------------------------------------------------------------------
\* the statuses the schema names
TransactionStatuses == {"auto", "manual", "pending_manual", "duplicate", "failed"}

\* C34: every transaction has one of the five statuses, and has status
\* duplicate exactly when its duplicate_detected flag is set.
C34_StatusMatchesDuplicateFlag ==
  \A t \in transactions :
    /\ t.status \in TransactionStatuses
    /\ (t.status = "duplicate") <=> t.duplicate_detected

\* the statuses are among the five, and a row of status duplicate has the
\* flag
C34_StatusAmongFive ==
  \A t \in transactions :
    /\ t.status \in TransactionStatuses
    /\ (t.status = "duplicate") => t.duplicate_detected

\* a row with the flag and another status was overridden by hand
C34_FlagWithoutStatusIsOverridden ==
  \A t \in transactions :
    (t.duplicate_detected /\ t.status # "duplicate")
      => (wr.pc = "returned" /\ wr.response = "303" /\ wr.tx_id = t.doc_id
            /\ t.status = "manual")

\* ---------------------------------------------------------------------
\* C35: in the JSONL lineage no two ledger records with duplicate_detected
\* = false share the same non-null invoice_key, whichever path wrote them.
C35_OriginalsShareNoInvoiceKey ==
  \A i, j \in 1..Len(ledger) :
    (/\ i # j
     /\ ~ledger[i].duplicate_detected
     /\ ~ledger[j].duplicate_detected
     /\ ledger[i].invoice_key # NoKey)
      => ledger[i].invoice_key # ledger[j].invoice_key

\* a record the auto path wrote: cleared by the tagger, parsed, not a stub
auto_record(r) ==
  /\ ~r.duplicate_detected
  /\ ~r.needs_manual_review
  /\ ~(r.confidence < AutoThreshold)
  /\ r.error = ""

\* the records of the auto path share no invoice key among themselves
C35_AutoRecordsShareNoInvoiceKey ==
  \A i, j \in 1..Len(ledger) :
    (/\ i # j
     /\ auto_record(ledger[i])
     /\ auto_record(ledger[j])
     /\ ledger[i].invoice_key # NoKey)
      => ledger[i].invoice_key # ledger[j].invoice_key

\* the key of every auto record is in seen_invoice_keys; the key of a
\* manual-review record need not be
C35_AutoKeysAreSeen ==
  \A i \in 1..Len(ledger) :
    (auto_record(ledger[i]) /\ ledger[i].invoice_key # NoKey)
      => ledger[i].invoice_key \in seen_invoice_keys

\* ---------------------------------------------------------------------
\* the decisions this run appended to manual_review_decisions.jsonl
appended_decisions ==
  SubSeq(read_jsonl(fs.decisions), Len(read_jsonl(wr.before.decisions)) + 1,
         Len(read_jsonl(fs.decisions)))

\* every item of the persisted queue file with a decision of this run is
\* marked resolved
decided_items_resolved_on_disk ==
  \A d \in 1..Len(appended_decisions) :
    \A q \in 1..Len(read_jsonl(fs.queue)) :
      read_jsonl(fs.queue)[q].doc_id = appended_decisions[d].doc_id
        => read_jsonl(fs.queue)[q].resolved

\* C36: when a run of the review without --dry-run has ended, normally or
\* by an error, every doc_id with a decision appended to the decisions
\* file is marked resolved in the persisted queue file.
C36_DecisionAndResolutionTogether ==
  (wr.op = "review_manual" /\ ~wr.dry_run /\ wr.pc = "exited")
    => decided_items_resolved_on_disk

\* a run that ended with exit code 0 persisted the resolution of every
\* decision it recorded
C36_CleanExitPersistedResolution ==
  (wr.op = "review_manual" /\ ~wr.dry_run /\ wr.pc = "exited"
     /\ wr.exit_code = 0)
    => decided_items_resolved_on_disk

\* in memory the item is resolved as soon as its decision is appended
C36_DecidedItemsResolvedInMemory ==
  (wr.op = "review_manual" /\ ~wr.dry_run /\ wr.pc \in {"loop", "exited"})
    => \A d \in 1..Len(appended_decisions) :
         \A q \in 1..Len(wr.queue_rows) :
           wr.queue_rows[q].doc_id = appended_decisions[d].doc_id
             => wr.queue_rows[q].resolved

\* a run ended by the error of upsert_dynamic_rule with a decision on file
C36_EndedByUpsertError ==
  /\ wr.op = "review_manual" /\ ~wr.dry_run /\ wr.pc = "exited"
  /\ wr.exit_code = 1 /\ wr.index <= Len(wr.queue_rows)
  /\ appended_decisions # <<>>
  /\ ~decided_items_resolved_on_disk

\* ---------------------------------------------------------------------
\* C37: whenever the top score is below 1.0 or the gap between the two
\* highest farm scores is below 0.3 (as decimal sums or as the program's
\* floats; two farms tied for the top score included), tag_document_text
\* returns a confidence of at most 0.70 and needs_manual_review true.
C37_CloseCallIsReviewed ==
  (cl.pc = "classified" /\ cl.scoring_consulted) =>
    LET candidates == scored_candidates(str_lower(cl.vision_text), cl.farms)
        top == top_score_of(candidates)
        second == second_score_of(candidates)
    IN  (\/ top.m < 1000
         \/ top.m - second.m < 300
         \/ float_lt(top, float_literal(1000))
         \/ float_lt(gap_of(candidates), float_literal(300))) =>
          /\ cl.scored.tag.confidence <= 70
          /\ cl.scored.tag.needs_manual_review
          /\ cl.tag_result = cl.scored.tag

\* the identifiers of both farms are in the document: 1.0 against 1.0,
\* the farm first in the configuration is the top candidate, and the
\* result is 0.70 with review
C37_Witness ==
  /\ cl.pc = "classified"
  /\ cl.scoring_consulted
  /\ Len(cl.scored.all_candidates) = 2
  /\ has_identifier_match(cl.scored.all_candidates[1])
  /\ cl.scored.all_candidates[1].score.m >= 1000
  /\ cl.scored.all_candidates[1].score = cl.scored.all_candidates[2].score
  /\ cl.scored.all_candidates[1].farm_id = cl.farms[1].id
  /\ cl.scored.tag = TagResult(cl.farms[1].id, 70, TRUE)

\* ---------------------------------------------------------------------
\* the four counters of process_batch
batch_counters(r) ==
  <<r.auto_processed, r.manual_review, r.skipped_duplicates, r.failed>>

\* exactly one of the four counters is one higher and the rest are as
\* they were
one_counter_incremented(before, after) ==
  \E c \in 1..4 :
    \A d \in 1..4 :
      batch_counters(after)[d] =
        batch_counters(before)[d] + (IF d = c THEN 1 ELSE 0)

\* C38: at the return of process_batch total = auto_processed +
\* manual_review + skipped_duplicates + failed, and each file of the
\* directory incremented exactly one of the four counters, whether its
\* call of process_single_invoice returned or raised.
C38_CountsPartitionFiles ==
  /\ [](\A w \in Workers :
          (pc[w] = "batch_summary" /\ run[w].mode = "batch") =>
            run[w].total = run[w].auto_processed + run[w].manual_review
                             + run[w].skipped_duplicates + run[w].failed)
  /\ [][\A w \in Workers :
          /\ (run[w].mode = "batch" /\ pc[w] \in {"returned", "raised"}
                /\ pc'[w] # pc[w]) =>
               /\ one_counter_incremented(run[w], run'[w])
               /\ run'[w].total = run[w].total
               /\ pc[w] = "raised" => run'[w].failed = run[w].failed + 1
          /\ (run[w].mode = "batch" /\ pc[w] \notin StartPoints
                /\ batch_counters(run'[w]) # batch_counters(run[w])) =>
               pc[w] \in {"returned", "raised"}]_vars

\* a batch of two files returned: one call raised and was counted as
\* failed, the other returned and was counted under its status
C38_Witness ==
  \E w \in Workers :
    /\ pc[w] = "batch_summary"
    /\ run[w].mode = "batch"
    /\ run[w].total = 2
    /\ run[w].failed = 1
    /\ run[w].auto_processed + run[w].manual_review
         + run[w].skipped_duplicates = 1
    /\ \E t \in transactions : t.error_reason = "unexpected_error"
====
